---- MODULE Spec2Model ----
(***************************************************************************)
(* The "Managing Sparse Data" notebook: EN3 ocean-profile observations are *)
(* loaded with their quality-control masks, binned onto a regular          *)
(* depth/latitude/longitude grid by aggregate_to_grid, masked by the       *)
(* occupancy count and given a bounded time coordinate.                    *)
(*                                                                         *)
(* Numbers are integers (the observations used are integer valued);        *)
(* means and variances are exact fractions <<numerator, denominator>>.     *)
(* A standard deviation is represented by its square, the variance.        *)
(***************************************************************************)
EXTENDS Integers, Sequences, FiniteSets, TLC

VARIABLES
    file,          \* the netCDF file: variable -> [nd, data, mask, attributes]
    shape,         \* <<number of profiles, depth samples per profile>>
    list_index,    \* how this numpy reads a[[i, j, k]]: "tuple" or "array"
    zero_length,   \* what this iris does with a cube of no points
    pc,            \* the notebook cell/statement to run next
    error,         \* the exception that ended the run, or "none"
    potm, depth, longitude, latitude, time,        \* the loaded cubes
    z_min, z_max, dz, y_min, y_max, dy, x_min, x_max, dx,
    nz, ny, nx,
    potm_mean, potm_std_dev, potm_counts,          \* the gridded results
    time_min, time_max, time_coord,
    cubelist,        \* cell-methods notebook: the loaded CubeList
    extracted_cm,    \* cubelist.extract(cm_constraint)
    extracted_6_hr,  \* cubelist.extract(constraint_6_hr)
    example_coord,   \* cell-comparison notebook: the cells of the coordinate
    value,           \* the scalar the cells are compared with
    cell_eq,         \* cell == value, per cell
    point_eq,        \* cell.point == value, per cell
    dummy_cube,      \* the cells of the cube's 'example' coordinate
    extracted_cell,  \* dummy_cube.extract(cell_comparison_constraint)
    extracted_point, \* dummy_cube.extract(cell_point_comparison_constraint)
    a1b_cube,        \* area-weights notebook: data, latitude and longitude
    uk_geom,         \* the geometry selected from the shapefile
    weights,         \* iag.geometry_area_weights(a1b_cube, uk_geom.geometry)
    cube_collapsed   \* the weighted mean over latitude and longitude

vars == <<file, shape, list_index, zero_length, pc, error,
          potm, depth, longitude, latitude, time,
          z_min, z_max, dz, y_min, y_max, dy, x_min, x_max, dx,
          nz, ny, nx,
          potm_mean, potm_std_dev, potm_counts,
          time_min, time_max, time_coord,
          cubelist, extracted_cm, extracted_6_hr,
          example_coord, value, cell_eq, point_eq,
          dummy_cube, extracted_cell, extracted_point,
          a1b_cube, uk_geom, weights, cube_collapsed>>

\* The variables of the cell-methods and of the cell-comparison notebook.
cmvars == <<cubelist, extracted_cm, extracted_6_hr>>
ccvars == <<example_coord, value, cell_eq, point_eq>>
cubevars_cc == <<dummy_cube, extracted_cell, extracted_point>>

\* The variables of the area-weights notebook.
awvars == <<a1b_cube, uk_geom, weights, cube_collapsed>>

\* The variables of the notebooks other than the sparse-data notebook.
othervars == <<cmvars, ccvars, cubevars_cc, awvars>>

(***************************************************************************)
(* Bounds of the model.                                                    *)
(***************************************************************************)
MaxProfiles == 3
MaxSamples == 2
MaxObs == 4
MaxCubes == 4
MaxPoints == 11
MaxHalfWidth == 2
MaxGridPoints == 3
MaxSlope == 1
MaxLoadLen == 1

\* A name not yet bound in the notebook's namespace.
Undefined == [undefined |-> TRUE]

(***************************************************************************)
(* Arithmetic helpers.                                                     *)
(***************************************************************************)
Abs(a) == IF a < 0 THEN -a ELSE a

\* np.floor(a / b) for integers a, b with b # 0.
FloorDiv(a, b) ==
    IF b > 0 THEN a \div b
    ELSE (-a) \div (-b)

\* int(a / b): conversion to int rounds towards zero.
TruncDiv(a, b) ==
    LET q == Abs(a) \div Abs(b)
    IN  IF (a < 0) = (b < 0) THEN q ELSE -q

RECURSIVE GCD(_, _)
GCD(a, b) == IF b = 0 THEN a ELSE GCD(b, a % b)

\* The fraction n/d (d > 0) in lowest terms.
Rat(n, d) ==
    LET g == GCD(Abs(n), d)
    IN  IF n = 0 THEN <<0, 1>> ELSE <<n \div g, d \div g>>

RatInt(n) == <<n, 1>>

\* a <= b for fractions with positive denominators.
RatLeq(a, b) == a[1] * b[2] <= b[1] * a[2]

\* 0.5 * (a + b)
RatMid(a, b) == Rat(a[1] * b[2] + b[1] * a[2], 2 * a[2] * b[2])

RECURSIVE SumSeq(_)
SumSeq(s) == IF s = <<>> THEN 0 ELSE Head(s) + SumSeq(Tail(s))

RECURSIVE SumSqSeq(_)
SumSqSeq(s) == IF s = <<>> THEN 0 ELSE Head(s) * Head(s) + SumSqSeq(Tail(s))

RECURSIVE MinSeq(_)
MinSeq(s) ==
    IF Len(s) = 1 THEN Head(s)
    ELSE LET m == MinSeq(Tail(s)) IN IF Head(s) <= m THEN Head(s) ELSE m

RECURSIVE MaxSeq(_)
MaxSeq(s) ==
    IF Len(s) = 1 THEN Head(s)
    ELSE LET m == MaxSeq(Tail(s)) IN IF Head(s) >= m THEN Head(s) ELSE m

\* The subsequence of s at the (increasing) positions where the boolean
\* array keep is true.
SelectIdx(s, keep) ==
    LET F[i \in 0..Len(s)] ==
            IF i = 0 THEN <<>>
            ELSE IF keep[i] THEN Append(F[i - 1], s[i]) ELSE F[i - 1]
    IN  F[Len(s)]

(***************************************************************************)
(* Loading (cell 4 of the notebook).                                       *)
(***************************************************************************)
\* The '_fillvalue' attribute the EN3 data variables carry.
FillValue == 99999
\* The attributes of a data variable, and of a variable without '_fillvalue'.
WithFill == [_fillvalue |-> FillValue]
NoFill == <<>>

\* np.array(qc_data, dtype=int) on the string-coded QC figures.
QcToInt(c) ==
    CASE c = "0" -> 0 [] c = "1" -> 1 [] c = "2" -> 2 [] c = "3" -> 3
      [] c = "4" -> 4 [] c = "5" -> 5 [] c = "6" -> 6 [] c = "7" -> 7
      [] c = "8" -> 8 [] c = "9" -> 9

\* The fill-value mask assigned ("=") where the code accumulates ("|=").
MaskFillAssigned(nd, mask, data, mdi) ==
    IF nd = 1
    THEN [i \in 1..Len(mask) |-> data[i] = mdi]
    ELSE [i \in 1..Len(mask) |->
            [j \in 1..Len(mask[i]) |-> data[i][j] = mdi]]

\* cube.data.mask |= cube.data == mdi, on an array of nd = 1 or 2 dimensions.
MaskFill(nd, mask, data, mdi) ==
    IF nd = 1
    THEN [i \in 1..Len(mask) |-> mask[i] \/ (data[i] = mdi)]
    ELSE [i \in 1..Len(mask) |->
            [j \in 1..Len(mask[i]) |-> mask[i][j] \/ (data[i][j] = mdi)]]

\* qc_data.filled() with the fill value set to qc_max_valid, as integers.
FilledQc(nd, data, mask, fill) ==
    IF nd = 1
    THEN [i \in 1..Len(data) |-> IF mask[i] THEN fill ELSE QcToInt(data[i])]
    ELSE [i \in 1..Len(data) |->
            [j \in 1..Len(data[i]) |->
                IF mask[i][j] THEN fill ELSE QcToInt(data[i][j])]]

\* The QC mask with "qc_data >= qc_max_valid" for ">".
MaskQcInclusive(nd, mask, qc_data, qc_max_valid) ==
    IF nd = 1
    THEN [i \in 1..Len(mask) |-> mask[i] \/ (qc_data[i] >= qc_max_valid)]
    ELSE [i \in 1..Len(mask) |->
            [j \in 1..Len(mask[i]) |->
                mask[i][j] \/ (qc_data[i][j] >= qc_max_valid)]]

\* cube.data.mask |= qc_data > qc_max_valid.
MaskQc(nd, mask, qc_data, qc_max_valid) ==
    IF nd = 1
    THEN [i \in 1..Len(mask) |-> mask[i] \/ (qc_data[i] > qc_max_valid)]
    ELSE [i \in 1..Len(mask) |->
            [j \in 1..Len(mask[i]) |->
                mask[i][j] \/ (qc_data[i][j] > qc_max_valid)]]

\* ensure_full_mask: the data with a mask array of its own shape.
ensure_full_mask(var) == [data |-> var.data, mask |-> var.mask]

\* load_en3_variable: the cube of a file variable, masked where the file
\* masks it and where the data equals the '_fillvalue' attribute.
load_en3_variable(var) ==
    LET cube == ensure_full_mask(var)
    IN  IF "_fillvalue" \in DOMAIN var.attributes
        THEN [data |-> cube.data,
              mask |-> MaskFill(var.nd, cube.mask, cube.data,
                                var.attributes._fillvalue)]
        ELSE cube

\* The statements of load_en3_with_quality_mask after the main variable is
\* loaded: the QC variable is loaded, filled with qc_max_valid where it is
\* missing, converted to numbers and or-ed into the cube's mask.
quality_mask(cube, nd, qc_var, qc_max_valid) ==
    LET qc == load_en3_variable(qc_var)
        qc_data == FilledQc(qc_var.nd, qc.data, qc.mask, qc_max_valid)
    IN  [data |-> cube.data,
         mask |-> MaskQc(nd, cube.mask, qc_data, qc_max_valid)]

\* load_en3_with_quality_mask: also masked where the QC figure exceeds
\* qc_max_valid; a missing QC figure is filled with qc_max_valid itself.
load_en3_with_quality_mask(main_var, qc_var, qc_max_valid) ==
    quality_mask(load_en3_variable(main_var), main_var.nd, qc_var,
                 qc_max_valid)

\* The thresholds of cell 5.
potm_qc_max_valid == 2
position_qc_max_valid == 1
default_qc_max_valid == 9

(***************************************************************************)
(* The regridding operation (cells 6 and 7).                               *)
(***************************************************************************)
NProfiles == shape[1]
NSamples == shape[2]

\* The flattening taken column by column instead of row by row.
FlatColumnMajor(cube) ==
    IF Len(cube.data) = 0 THEN <<>>
    ELSE [k \in 1..(Len(cube.data) * Len(cube.data[1])) |->
            LET p == ((k - 1) % Len(cube.data)) + 1
                s == ((k - 1) \div Len(cube.data)) + 1
            IN  [data |-> cube.data[p][s], mask |-> cube.mask[p][s]]]

\* array.flat[...] of a 2-d masked array: row-major, the mask kept.
Flat(cube) ==
    IF Len(cube.data) = 0 THEN <<>>
    ELSE [k \in 1..(Len(cube.data) * Len(cube.data[1])) |->
            LET p == ((k - 1) \div Len(cube.data[1])) + 1
                s == ((k - 1) % Len(cube.data[1])) + 1
            IN  [data |-> cube.data[p][s], mask |-> cube.mask[p][s]]]

\* np.broadcast_arrays(coord.data[:, None], phenom.data)[0]: the profile's
\* value repeated along the depth-sample dimension.  The result is a plain
\* ndarray (subok=False): the mask of coord.data is not carried over.
broadcast_arrays(coord, phenom) ==
    [data |-> [p \in 1..Len(phenom.data) |->
                 [s \in 1..Len(phenom.data[p]) |-> coord.data[p]]],
     mask |-> [p \in 1..Len(phenom.data) |->
                 [s \in 1..Len(phenom.data[p]) |-> FALSE]]]

\* The index with the quotient cut towards zero instead of floored.
CellIndexTrunc(point, start, step) ==
    IF point.mask THEN point.data
    ELSE TruncDiv(point.data - start, step)

\* The index one point gets in add_index_coord.  On a masked element the
\* masked-array subtraction and division leave the element's stored number
\* in place, so np.floor and the int conversion act on that number.
CellIndex(point, start, step) ==
    IF point.mask THEN point.data
    ELSE FloorDiv(point.data - start, step)

\* add_index_coord: the integer gridcell index of every point; the mask of
\* the points is dropped by np.array(cell_indices, dtype=int).
add_index_coord(coord_points, start, step) ==
    [k \in 1..Len(coord_points) |-> CellIndex(coord_points[k], start, step)]

\* The categories of aggregated_by: the distinct index triples, in the
\* order of their first occurrence.
GroupKeys(keys) ==
    SelectIdx(keys, [i \in 1..Len(keys) |->
                        \A j \in 1..(i - 1) : keys[j] # keys[i]])

\* The elements of cube_flat that fall in category key.
GroupMembers(cube_flat, keys, key) ==
    SelectIdx(cube_flat, [i \in 1..Len(keys) |-> keys[i] = key])

\* The unmasked numbers of a group.
ValidData(group) ==
    LET v == SelectIdx(group, [i \in 1..Len(group) |-> ~group[i].mask])
    IN  [i \in 1..Len(v) |-> v[i].data]

MaskedCell == [data |-> <<0, 1>>, mask |-> TRUE]

\* iris.analysis.MEAN: ma.average over the unmasked elements.
AggMEAN(group) ==
    LET v == ValidData(group)
    IN  IF Len(v) = 0 THEN MaskedCell
        ELSE [data |-> Rat(SumSeq(v), Len(v)), mask |-> FALSE]

\* iris.analysis.STD_DEV: ma.std with ddof=1, held as the variance; masked
\* when fewer than two elements are unmasked.
AggSTD_DEV(group) ==
    LET v == ValidData(group)
        n == Len(v)
    IN  IF n <= 1 THEN MaskedCell
        ELSE [data |-> Rat(n * SumSqSeq(v) - SumSeq(v) * SumSeq(v), n * (n - 1)),
              mask |-> FALSE]

\* iris.analysis.COUNT with function=lambda points: np.ones(points.shape):
\* the sum of one 1 per element of the group, masked or not.
AggCOUNT(group) ==
    [data |-> RatInt(SumSeq([i \in 1..Len(group) |-> 1])), mask |-> FALSE]

\* iris.analysis.MIN / MAX: ma.min / ma.max over the unmasked elements.
AggMIN(group) ==
    LET v == ValidData(group)
    IN  IF Len(v) = 0 THEN MaskedCell
        ELSE [data |-> RatInt(MinSeq(v)), mask |-> FALSE]

AggMAX(group) ==
    LET v == ValidData(group)
    IN  IF Len(v) = 0 THEN MaskedCell
        ELSE [data |-> RatInt(MaxSeq(v)), mask |-> FALSE]

Aggregate(aggregator, group) ==
    CASE aggregator = "MEAN"    -> AggMEAN(group)
      [] aggregator = "STD_DEV" -> AggSTD_DEV(group)
      [] aggregator = "COUNT"   -> AggCOUNT(group)
      [] aggregator = "MIN"     -> AggMIN(group)
      [] aggregator = "MAX"     -> AggMAX(group)

\* cube_flat.aggregated_by(('i_depth', 'i_lat', 'i_lon'), aggregator):
\* one result per inhabited category, with the category's index triple.
aggregated_by(cube_flat, keys, aggregator) ==
    LET gk == GroupKeys(keys)
    IN  [m \in 1..Len(gk) |->
            [key |-> gk[m],
             cell |-> Aggregate(aggregator, GroupMembers(cube_flat, keys, gk[m]))]]

\* The gridcells of a grid of shape (gz, gy, gx), indexed from 0.
Cells(gz, gy, gx) == (0..(gz - 1)) \X (0..(gy - 1)) \X (0..(gx - 1))

\* np.ma.MaskedArray(np.zeros((nz, ny, nx)), mask=True)
full_data_empty(gz, gy, gx) == [c \in Cells(gz, gy, gx) |-> MaskedCell]

\* The i_ok filter: a category inside the target grid on all three axes.
InGrid(key, gz, gy, gx) ==
    /\ key[1] >= 0 /\ key[1] < gz
    /\ key[2] >= 0 /\ key[2] < gy
    /\ key[3] >= 0 /\ key[3] < gx

\* numpy's reading of an index i on an axis of length n: negative indices
\* count from the end.
NormIndex(i, n) == IF i < 0 THEN i + n ELSE i
ValidIndex(i, n) == i >= -n /\ i < n

\* result_cube.data[[i_z, i_y, i_x]] = values, where numpy reads the list
\* of three index arrays as the tuple (i_z, i_y, i_x): one value per triple.
ScatterTuple(grid, ok, gz, gy, gx) ==
    LET at(m) == <<NormIndex(ok[m].key[1], gz), NormIndex(ok[m].key[2], gy),
                   NormIndex(ok[m].key[3], gx)>>
        hits(c) == {m \in 1..Len(ok) : at(m) = c}
    IN  IF \E m \in 1..Len(ok) :
              ~(/\ ValidIndex(ok[m].key[1], gz)
                /\ ValidIndex(ok[m].key[2], gy)
                /\ ValidIndex(ok[m].key[3], gx))
        THEN [err |-> "IndexError", data |-> grid]
        ELSE [err |-> "none",
              data |-> [c \in DOMAIN grid |->
                           IF hits(c) # {}
                           THEN (ok[CHOOSE m \in hits(c) :
                                       \A o \in hits(c) : o <= m]).cell
                           ELSE grid[c]]]

\* The same statement where numpy reads the list as one index array of
\* shape (3, M) on the first axis: the indexing result has shape
\* (3, M, ny, nx), the M values must broadcast to it, and every index must
\* be valid for the first axis.
ScatterArray(grid, ok, gz, gy, gx) ==
    LET M == Len(ok)
        idx == {ok[m].key[a] : m \in 1..M, a \in 1..3}
        rows == {NormIndex(i, gz) : i \in idx}
    IN  IF ~(M = 1 \/ M = gx)
        THEN [err |-> "ValueError", data |-> grid]
        ELSE IF \E i \in idx : ~ValidIndex(i, gz)
        THEN [err |-> "IndexError", data |-> grid]
        ELSE [err |-> "none",
              data |-> [c \in DOMAIN grid |->
                           IF c[1] \in rows
                           THEN (ok[IF M = 1 THEN 1 ELSE c[3] + 1]).cell
                           ELSE grid[c]]]

\* The assignment without the i_ok filter: every category is scattered.
ScatterUnfiltered(result_cells, gz, gy, gx, mode) ==
    IF mode = "tuple"
    THEN ScatterTuple(full_data_empty(gz, gy, gx), result_cells, gz, gy, gx)
    ELSE ScatterArray(full_data_empty(gz, gy, gx), result_cells, gz, gy, gx)

\* The full-grid result and the assignment of the in-grid
\* aggregation results to it.
Scatter(result_cells, gz, gy, gx, mode) ==
    LET i_ok == [m \in 1..Len(result_cells) |->
                    InGrid(result_cells[m].key, gz, gy, gx)]
        ok == SelectIdx(result_cells, i_ok)
    IN  IF mode = "tuple"
        THEN ScatterTuple(full_data_empty(gz, gy, gx), ok, gz, gy, gx)
        ELSE ScatterArray(full_data_empty(gz, gy, gx), ok, gz, gy, gx)

\* aggregate_to_grid on the flattened arrays: the data points with their
\* three index coordinates.
regrid_flat(cube_flat, i_depth, i_lat, i_lon, aggregator) ==
    LET keys == [k \in 1..Len(cube_flat) |-> <<i_depth[k], i_lat[k], i_lon[k]>>]
        result_cells == aggregated_by(cube_flat, keys, aggregator)
    IN  IF Len(cube_flat) = 0 /\ zero_length # "accepted"
        THEN \* aggregated_by refuses the zero-length cube
             [err |-> zero_length, data |-> <<>>]
        ELSE IF nz < 0 \/ ny < 0 \/ nx < 0
        THEN \* np.zeros((nz, ny, nx)): negative dimensions are not allowed
             [err |-> "ValueError", data |-> <<>>]
        ELSE Scatter(result_cells, nz, ny, nx, list_index)

\* The three index coordinates aggregate_to_grid attaches to cube_flat.
i_depth_coord == add_index_coord(Flat(depth), z_min, dz)
i_lon_coord(phenom) ==
    add_index_coord(Flat(broadcast_arrays(longitude, phenom)), x_min, dx)
i_lat_coord(phenom) ==
    add_index_coord(Flat(broadcast_arrays(latitude, phenom)), y_min, dy)

\* aggregate_to_grid(phenom, aggregator): [err, data], data the grid when
\* err = "none".
aggregate_to_grid(phenom, aggregator) ==
    regrid_flat(Flat(phenom), i_depth_coord, i_lat_coord(phenom),
                i_lon_coord(phenom), aggregator)

(***************************************************************************)
(* The inputs: the contents of the EN3 file.                               *)
(***************************************************************************)
\* One depth sample: value, value QC figure, depth, depth missing in file.
S_ok5     == [value |-> 5,         vqc |-> "1", depth |-> 10,  dmiss |-> FALSE]
S_ok7     == [value |-> 7,         vqc |-> "1", depth |-> 10,  dmiss |-> FALSE]
S_badqc   == [value |-> 100,       vqc |-> "9", depth |-> 10,  dmiss |-> FALSE]
S_deep    == [value |-> 7,         vqc |-> "1", depth |-> 50,  dmiss |-> FALSE]
S_below   == [value |-> 5,         vqc |-> "1", depth |-> 100, dmiss |-> FALSE]
S_nodepth == [value |-> 5,         vqc |-> "1", depth |-> 1,   dmiss |-> TRUE]
S_fill    == [value |-> FillValue, vqc |-> "1", depth |-> 10,  dmiss |-> FALSE]

SampleTemplates == {S_ok5, S_ok7, S_badqc, S_deep, S_below, S_nodepth, S_fill}
CommonTemplates == {S_ok5, S_badqc, S_deep}

\* One profile: latitude, longitude and the position QC figure.
P_base  == [lat |-> -5,  lon |-> -5,  pqc |-> "1"]
P_north == [lat |-> 0,   lon |-> -10, pqc |-> "1"]
P_east  == [lat |-> -5,  lon |-> 10,  pqc |-> "1"]
P_south == [lat |-> -11, lon |-> 5,   pqc |-> "1"]
P_badqc == [lat |-> -5,  lon |-> -5,  pqc |-> "4"]

ProfileTemplates == {P_base, P_north, P_east, P_south, P_badqc}

Times == {0, 1, 2}

Shapes ==
    {sh \in (0..MaxProfiles) \X (1..MaxSamples) : sh[1] * sh[2] <= MaxObs}

\* cube_flat.aggregated_by on a cube without points: iris either returns a
\* result without categories or refuses the zero-length cube with an
\* IndexError.  The outcome is only ever read for a file without profiles.
ZeroLengthOutcomes(sh) ==
    IF sh[1] = 0 THEN {"accepted", "IndexError"} ELSE {"accepted"}

\* The file holding the given samples (per profile and depth sample),
\* profiles and observation times.
MakeFile(sh, samp, prof, tm) ==
    LET P == sh[1]
        S == sh[2]
        arr2(f(_)) == [p \in 1..P |-> [s \in 1..S |-> f(samp[p][s])]]
        arr1(f(_)) == [p \in 1..P |-> f(prof[p])]
    IN  [potm     |-> [nd |-> 2, attributes |-> WithFill,
                       data |-> arr2(LAMBDA t : t.value),
                       mask |-> arr2(LAMBDA t : FALSE)],
         potm_qc  |-> [nd |-> 2, attributes |-> NoFill,
                       data |-> arr2(LAMBDA t : t.vqc),
                       mask |-> arr2(LAMBDA t : FALSE)],
         depth    |-> [nd |-> 2, attributes |-> WithFill,
                       data |-> arr2(LAMBDA t : t.depth),
                       mask |-> arr2(LAMBDA t : t.dmiss)],
         depth_qc |-> [nd |-> 2, attributes |-> NoFill,
                       data |-> arr2(LAMBDA t : "1"),
                       mask |-> arr2(LAMBDA t : FALSE)],
         lon      |-> [nd |-> 1, attributes |-> WithFill,
                       data |-> arr1(LAMBDA t : t.lon),
                       mask |-> arr1(LAMBDA t : FALSE)],
         lat      |-> [nd |-> 1, attributes |-> WithFill,
                       data |-> arr1(LAMBDA t : t.lat),
                       mask |-> arr1(LAMBDA t : FALSE)],
         pos_qc   |-> [nd |-> 1, attributes |-> NoFill,
                       data |-> arr1(LAMBDA t : t.pqc),
                       mask |-> arr1(LAMBDA t : FALSE)],
         time     |-> [nd |-> 1, attributes |-> WithFill,
                       data |-> [p \in 1..P |-> tm[p]],
                       mask |-> [p \in 1..P |-> FALSE]],
         time_qc  |-> [nd |-> 1, attributes |-> NoFill,
                       data |-> [p \in 1..P |-> "1"],
                       mask |-> [p \in 1..P |-> FALSE]]]

\* The families of input files explored: the samples varied over the
\* common templates; one sample of the base pattern replaced by any
\* template; every profile's position varied; the observation times varied.
InputFiles(sh) ==
    LET P == sh[1]
        S == sh[2]
        base_samp == [p \in 1..P |-> [s \in 1..S |->
                        CASE ((p - 1) * S + s) % 3 = 1 -> S_ok5
                          [] ((p - 1) * S + s) % 3 = 2 -> S_ok7
                          [] OTHER -> S_badqc]]
        base_prof == [p \in 1..P |-> P_base]
        base_time == [p \in 1..P |-> p - 1]
    IN  {MakeFile(sh, samp, base_prof, base_time) :
            samp \in [1..P -> [1..S -> CommonTemplates]]}
        \cup
        {MakeFile(sh, [base_samp EXCEPT ![ps[1]][ps[2]] = t],
                  base_prof, base_time) :
            ps \in (1..P) \X (1..S), t \in SampleTemplates}
        \cup
        {MakeFile(sh, base_samp, prof, base_time) :
            prof \in [1..P -> ProfileTemplates]}
        \cup
        {MakeFile(sh, base_samp, base_prof, tm) : tm \in [1..P -> Times]}

\* The target grids: (min, max, step) of the depth, latitude and longitude
\* axes.
GridSpecs ==
    {[z |-> <<0, 100, 50>>, y |-> <<-10, 10, 10>>, x |-> <<-10, 10, 10>>],
     [z |-> <<0, 100, 50>>, y |-> <<-10, 10, 20>>, x |-> <<-10, 20, 10>>]}

(***************************************************************************)
(* The notebook as a state machine: one action per statement that binds a  *)
(* result.                                                                 *)
(***************************************************************************)
Init ==
    /\ shape \in Shapes
    /\ file \in InputFiles(shape)
    /\ list_index \in {"tuple", "array"}
    /\ zero_length \in ZeroLengthOutcomes(shape)
    /\ pc = "load"
    /\ error = "none"
    /\ potm = Undefined /\ depth = Undefined /\ longitude = Undefined
    /\ latitude = Undefined /\ time = Undefined
    /\ z_min = Undefined /\ z_max = Undefined /\ dz = Undefined
    /\ y_min = Undefined /\ y_max = Undefined /\ dy = Undefined
    /\ x_min = Undefined /\ x_max = Undefined /\ dx = Undefined
    /\ nz = Undefined /\ ny = Undefined /\ nx = Undefined
    /\ potm_mean = Undefined /\ potm_std_dev = Undefined
    /\ potm_counts = Undefined
    /\ time_min = Undefined /\ time_max = Undefined /\ time_coord = Undefined
    /\ cubelist = Undefined /\ extracted_cm = Undefined
    /\ extracted_6_hr = Undefined
    /\ example_coord = Undefined /\ value = Undefined
    /\ cell_eq = Undefined /\ point_eq = Undefined
    /\ dummy_cube = Undefined /\ extracted_cell = Undefined
    /\ extracted_point = Undefined
    /\ a1b_cube = Undefined /\ uk_geom = Undefined
    /\ weights = Undefined /\ cube_collapsed = Undefined

gridvars == <<z_min, z_max, dz, y_min, y_max, dy, x_min, x_max, dx, nz, ny, nx>>
cubevars == <<potm, depth, longitude, latitude, time>>
resultvars == <<potm_mean, potm_std_dev, potm_counts>>
timevars == <<time_min, time_max, time_coord>>
inputvars == <<file, shape, list_index, zero_length>>

\* Cell 5: load the data and the location, depth and time information.
LoadData ==
    /\ pc = "load"
    /\ potm' = load_en3_with_quality_mask(file.potm, file.potm_qc,
                                          potm_qc_max_valid)
    /\ depth' = load_en3_with_quality_mask(file.depth, file.depth_qc,
                                           default_qc_max_valid)
    /\ longitude' = load_en3_with_quality_mask(file.lon, file.pos_qc,
                                               position_qc_max_valid)
    /\ latitude' = load_en3_with_quality_mask(file.lat, file.pos_qc,
                                              position_qc_max_valid)
    /\ time' = load_en3_with_quality_mask(file.time, file.time_qc,
                                          default_qc_max_valid)
    /\ pc' = "grid"
    /\ UNCHANGED <<othervars, inputvars, error, gridvars, resultvars, timevars>>

\* The statements of cell 6 for the grid g.  The three tuple assignments
\* run first; each of nz, ny, nx is then bound in turn, and a step of 0
\* ends the cell with Python's ZeroDivisionError at that statement.
SetGrid(g) ==
    /\ z_min' = g.z[1] /\ z_max' = g.z[2] /\ dz' = g.z[3]
    /\ y_min' = g.y[1] /\ y_max' = g.y[2] /\ dy' = g.y[3]
    /\ x_min' = g.x[1] /\ x_max' = g.x[2] /\ dx' = g.x[3]
    /\ nz' = IF g.z[3] = 0 THEN nz ELSE TruncDiv(g.z[2] - g.z[1], g.z[3])
    /\ ny' = IF 0 \in {g.z[3], g.y[3]} THEN ny
             ELSE TruncDiv(g.y[2] - g.y[1], g.y[3])
    /\ nx' = IF 0 \in {g.z[3], g.y[3], g.x[3]} THEN nx
             ELSE TruncDiv(g.x[2] - g.x[1], g.x[3])
    /\ IF 0 \in {g.z[3], g.y[3], g.x[3]}
       THEN error' = "ZeroDivisionError" /\ pc' = "failed"
       ELSE error' = error /\ pc' = "regrid_mean"

\* Cell 6: the parameters of the target grid.
DefineGrid ==
    /\ pc = "grid"
    /\ \E g \in GridSpecs : SetGrid(g)
    /\ UNCHANGED <<othervars, inputvars, cubevars, resultvars, timevars>>

\* Grid parameters with a step that is not positive: a step of 0 on the
\* first or on the last axis, a negative step from min up to max, and a
\* negative step from a larger min down to a smaller max.
BadGridSpecs ==
    {[z |-> <<0, 100, 0>>,    y |-> <<-10, 10, 10>>,  x |-> <<-10, 10, 10>>],
     [z |-> <<0, 100, 50>>,   y |-> <<-10, 10, 10>>,  x |-> <<-10, 10, 0>>],
     [z |-> <<0, 100, 50>>,   y |-> <<-10, 10, -10>>, x |-> <<-10, 10, 10>>],
     [z |-> <<100, 0, -50>>,  y |-> <<-10, 10, 10>>,  x |-> <<-10, 10, 10>>]}

\* Cell 6 edited to such parameters.
DefineBadGrid ==
    /\ pc = "grid"
    /\ \E g \in BadGridSpecs : SetGrid(g)
    /\ UNCHANGED <<othervars, inputvars, cubevars, resultvars, timevars>>

\* The first statement of cell 8 with a call that masks, in place, the
\* phenomenon where the depth is masked.
RegridMeanInPlace ==
    /\ pc = "regrid_mean"
    /\ LET r == aggregate_to_grid(potm, "MEAN")
       IN  IF r.err # "none"
           THEN /\ error' = r.err /\ pc' = "failed"
                /\ UNCHANGED potm_mean
           ELSE /\ potm_mean' = r.data /\ pc' = "regrid_std_dev"
                /\ UNCHANGED error
    /\ potm' = [data |-> potm.data,
                mask |-> [p \in 1..Len(potm.mask) |->
                            [s \in 1..Len(potm.mask[p]) |->
                                potm.mask[p][s] \/ depth.mask[p][s]]]]
    /\ UNCHANGED <<othervars, inputvars, depth, longitude, latitude, time, gridvars,
                   potm_std_dev, potm_counts, timevars>>

\* The first statement of cell 8 with a call that hands out the result
\* grid as far as it was filled when the assignment raised.
RegridMeanPartial ==
    /\ pc = "regrid_mean"
    /\ LET r == aggregate_to_grid(potm, "MEAN")
       IN  IF r.err # "none"
           THEN /\ error' = r.err /\ pc' = "failed"
                /\ potm_mean' = r.data
           ELSE /\ potm_mean' = r.data /\ pc' = "regrid_std_dev"
                /\ UNCHANGED error
    /\ UNCHANGED <<othervars, inputvars, cubevars, gridvars, potm_std_dev, potm_counts,
                   timevars>>

\* Cell 8, first statement: potm_mean = aggregate_to_grid(potm)
RegridMean ==
    /\ pc = "regrid_mean"
    /\ LET r == aggregate_to_grid(potm, "MEAN")
       IN  IF r.err # "none"
           THEN /\ error' = r.err /\ pc' = "failed"
                /\ UNCHANGED potm_mean
           ELSE /\ potm_mean' = r.data /\ pc' = "regrid_std_dev"
                /\ UNCHANGED error
    /\ UNCHANGED <<othervars, inputvars, cubevars, gridvars, potm_std_dev, potm_counts,
                   timevars>>

\* Cell 8: potm_std_dev = aggregate_to_grid(potm, iris.analysis.STD_DEV)
RegridStdDev ==
    /\ pc = "regrid_std_dev"
    /\ LET r == aggregate_to_grid(potm, "STD_DEV")
       IN  IF r.err # "none"
           THEN /\ error' = r.err /\ pc' = "failed"
                /\ UNCHANGED potm_std_dev
           ELSE /\ potm_std_dev' = r.data /\ pc' = "regrid_counts"
                /\ UNCHANGED error
    /\ UNCHANGED <<othervars, inputvars, cubevars, gridvars, potm_mean, potm_counts,
                   timevars>>

\* Cell 8: potm_counts = aggregate_to_grid(potm, iris.analysis.COUNT, ...)
RegridCounts ==
    /\ pc = "regrid_counts"
    /\ LET r == aggregate_to_grid(potm, "COUNT")
       IN  IF r.err # "none"
           THEN /\ error' = r.err /\ pc' = "failed"
                /\ UNCHANGED potm_counts
           ELSE /\ potm_counts' = r.data /\ pc' = "mask_counts"
                /\ UNCHANGED error
    /\ UNCHANGED <<othervars, inputvars, cubevars, gridvars, potm_mean, potm_std_dev,
                   timevars>>

\* The occupancy a gridcell must exceed to keep its result.
count_threshold == 3

\* The occupancy test with "<" in place of "<=".
invalid_counts_strict(counts) ==
    [c \in DOMAIN counts |->
        ~RatLeq(RatInt(count_threshold), counts[c].data)]

\* invalid_counts = potm_counts.data <= 3, as it enters "mask |=": the
\* comparison of the numbers stored in the count grid.
invalid_counts(counts) ==
    [c \in DOMAIN counts |-> RatLeq(counts[c].data, RatInt(count_threshold))]

\* cube.data.mask |= invalid
MaskOr(grid, invalid) ==
    [c \in DOMAIN grid |->
        [data |-> grid[c].data, mask |-> grid[c].mask \/ invalid[c]]]

\* Cell 9: the occupancy condition on the mean and the standard deviation.
MaskCounts ==
    /\ pc = "mask_counts"
    /\ potm_mean' = MaskOr(potm_mean, invalid_counts(potm_counts))
    /\ potm_std_dev' = MaskOr(potm_std_dev, invalid_counts(potm_counts))
    /\ pc' = "time_coord"
    /\ UNCHANGED <<othervars, inputvars, error, cubevars, gridvars, potm_counts, timevars>>

\* time2d: the times broadcast to the shape of potm, a cube of plain data.
time2d == broadcast_arrays(time, potm)

\* 0.5 * (time_min.data + time_max.data): masked where either is masked.
time_centres(tmin, tmax) ==
    [c \in DOMAIN tmin |->
        IF tmin[c].mask \/ tmax[c].mask THEN MaskedCell
        ELSE [data |-> RatMid(tmin[c].data, tmax[c].data), mask |-> FALSE]]

\* np.concatenate((time_min.data[..., None], time_max.data[..., None]), -1):
\* the stored numbers; np.concatenate does not keep the input masks.
time_bounds(tmin, tmax) ==
    [c \in DOMAIN tmin |-> <<tmin[c].data, tmax[c].data>>]

\* Cell 10: the bounded time coordinate of the result cubes.
TimeCoord ==
    /\ pc = "time_coord"
    /\ LET rmin == aggregate_to_grid(time2d, "MIN")
           rmax == aggregate_to_grid(time2d, "MAX")
       IN  IF rmin.err # "none" \/ rmax.err # "none"
           THEN /\ error' = IF rmin.err # "none" THEN rmin.err ELSE rmax.err
                /\ pc' = "failed"
                /\ UNCHANGED timevars
           ELSE /\ time_min' = rmin.data
                /\ time_max' = rmax.data
                /\ time_coord' = [points |-> time_centres(rmin.data, rmax.data),
                                  bounds |-> time_bounds(rmin.data, rmax.data)]
                /\ pc' = "save"
                /\ UNCHANGED error
    /\ UNCHANGED <<othervars, inputvars, cubevars, gridvars, resultvars>>

\* Cell 11: iris.save of the three result cubes.
Save ==
    /\ pc = "save"
    /\ pc' = "done"
    /\ UNCHANGED <<othervars, inputvars, error, cubevars, gridvars, resultvars, timevars>>

Next ==
    \/ LoadData
    \/ DefineGrid
    \/ RegridMean
    \/ RegridStdDev
    \/ RegridCounts
    \/ MaskCounts
    \/ TimeCoord
    \/ Save

Spec == Init /\ [][Next]_vars

\* The notebook run with the grid parameters of BadGridSpecs.
NextBadGrid ==
    \/ LoadData
    \/ DefineBadGrid
    \/ RegridMean
    \/ RegridStdDev
    \/ RegridCounts
    \/ MaskCounts
    \/ TimeCoord
    \/ Save

SpecBadGrid == Init /\ [][NextBadGrid]_vars

(***************************************************************************)
(* The "Loading cubes when Cell Methods are present" notebook.             *)
(***************************************************************************)
\* The variables of the sparse-data notebook.
sparsevars ==
    <<inputvars, error, cubevars, gridvars, resultvars, timevars>>

\* None of the sparse-data notebook has run.
SparseUnbound ==
    /\ error = "none"
    /\ file = Undefined /\ shape = Undefined
    /\ list_index = Undefined /\ zero_length = Undefined
    /\ potm = Undefined /\ depth = Undefined /\ longitude = Undefined
    /\ latitude = Undefined /\ time = Undefined
    /\ z_min = Undefined /\ z_max = Undefined /\ dz = Undefined
    /\ y_min = Undefined /\ y_max = Undefined /\ dy = Undefined
    /\ x_min = Undefined /\ x_max = Undefined /\ dx = Undefined
    /\ nz = Undefined /\ ny = Undefined /\ nx = Undefined
    /\ potm_mean = Undefined /\ potm_std_dev = Undefined
    /\ potm_counts = Undefined
    /\ time_min = Undefined /\ time_max = Undefined /\ time_coord = Undefined

\* iris.coords.CellMethod(method, coords, intervals): the names of the
\* coordinates and the intervals are tuples (a single string stands for a
\* tuple of one), comments is the empty tuple.
CellMethod(method, coords, intervals) ==
    [method |-> method, coord_names |-> coords, intervals |-> intervals,
     comments |-> <<>>]

\* A cube as far as the notebook reads it: its name and cell_methods tuple.
\* The four cubes loaded from the sample files, and cubes whose cell method
\* differs from interval_6_hr in the interval or in the coordinate, or that
\* hold it after another cell method.
C_theta    == [name |-> "air_potential_temperature", cell_methods |-> <<>>]
C_pressure == [name |-> "air_pressure", cell_methods |-> <<>>]
C_a1b      == [name |-> "air_temperature",
               cell_methods |->
                   <<CellMethod("mean", <<"time">>, <<"6 hour">>)>>]
C_ostia    == [name |-> "surface_temperature",
               cell_methods |->
                   <<CellMethod("mean", <<"month", "year">>, <<>>)>>]
C_1_hr     == [name |-> "air_temperature",
               cell_methods |->
                   <<CellMethod("mean", <<"time">>, <<"1 hour">>)>>]
C_lat      == [name |-> "air_temperature",
               cell_methods |->
                   <<CellMethod("mean", <<"latitude">>, <<"6 hour">>)>>]
C_max_mean == [name |-> "air_temperature",
               cell_methods |->
                   <<CellMethod("maximum", <<"time">>, <<"1 hour">>),
                     CellMethod("mean", <<"time">>, <<"6 hour">>)>>]

CubeTemplates ==
    {C_theta, C_pressure, C_a1b, C_ostia, C_1_hr, C_lat, C_max_mean}

\* The cube lists explored: up to MaxCubes cubes in any order.
CubeLists == UNION {[1..n -> CubeTemplates] : n \in 0..MaxCubes}

\* has_cell_methods with "len(cm) > 1" for "len(cm) > 0".
has_cell_methods_two(cube) ==
    LET cm == cube.cell_methods
    IN  Len(cm) > 1

\* def has_cell_methods(cube)
has_cell_methods(cube) ==
    LET cm == cube.cell_methods
    IN  Len(cm) > 0

interval_6_hr == CellMethod("mean", <<"time">>, <<"6 hour">>)

\* The cube function of constraint_6_hr comparing method and coordinate
\* names only.
constraint_6_hr_by_name(cube) ==
    \E j \in 1..Len(cube.cell_methods) :
        /\ cube.cell_methods[j].method = interval_6_hr.method
        /\ cube.cell_methods[j].coord_names = interval_6_hr.coord_names

\* lambda cube: interval_6_hr in cube.cell_methods -- a member of the tuple
\* equal to interval_6_hr in method, coord_names, intervals and comments.
constraint_6_hr(cube) ==
    \E j \in 1..Len(cube.cell_methods) : cube.cell_methods[j] = interval_6_hr

\* cubelist.extract(cm_constraint): the cubes the cube function accepts, in
\* the order of the list.
extract_cm_constraint(cubes) ==
    SelectIdx(cubes, [i \in 1..Len(cubes) |-> has_cell_methods(cubes[i])])

\* cubelist.extract(constraint_6_hr)
extract_constraint_6_hr(cubes) ==
    SelectIdx(cubes, [i \in 1..Len(cubes) |-> constraint_6_hr(cubes[i])])

InitCellMethods ==
    /\ pc = "cm_load"
    /\ SparseUnbound
    /\ cubelist = Undefined /\ extracted_cm = Undefined
    /\ extracted_6_hr = Undefined
    /\ example_coord = Undefined /\ value = Undefined
    /\ cell_eq = Undefined /\ point_eq = Undefined
    /\ dummy_cube = Undefined /\ extracted_cell = Undefined
    /\ extracted_point = Undefined
    /\ a1b_cube = Undefined /\ uk_geom = Undefined
    /\ weights = Undefined /\ cube_collapsed = Undefined

\* cubelist = iris.load([...])
LoadCubes ==
    /\ pc = "cm_load"
    /\ cubelist' \in CubeLists
    /\ pc' = "cm_extract"
    /\ UNCHANGED <<extracted_cm, extracted_6_hr, ccvars, cubevars_cc, awvars, sparsevars>>

\* print (cubelist.extract(cm_constraint))
ExtractCm ==
    /\ pc = "cm_extract"
    /\ extracted_cm' = extract_cm_constraint(cubelist)
    /\ pc' = "cm_extract_6_hr"
    /\ UNCHANGED <<cubelist, extracted_6_hr, ccvars, cubevars_cc, awvars, sparsevars>>

\* print (cubelist.extract(constraint_6_hr))
Extract6Hr ==
    /\ pc = "cm_extract_6_hr"
    /\ extracted_6_hr' = extract_constraint_6_hr(cubelist)
    /\ pc' = "cm_done"
    /\ UNCHANGED <<cubelist, extracted_cm, ccvars, cubevars_cc, awvars, sparsevars>>

NextCellMethods ==
    \/ LoadCubes
    \/ ExtractCm
    \/ Extract6Hr

SpecCellMethods == InitCellMethods /\ [][NextCellMethods]_vars

(***************************************************************************)
(* The "Cell Comparisons" notebook.                                        *)
(***************************************************************************)
\* example_coord.cells() of AuxCoord(points, bounds=bounds) for
\* points = np.arange(n) and bounds = (x - w, x + w) for x in points.
AuxCoord(n, w) ==
    [i \in 1..n |-> [point |-> i - 1, bound |-> <<i - 1 - w, i - 1 + w>>]]

\* The coordinates explored: up to MaxPoints points, bounds up to
\* MaxHalfWidth either side of the point, in either order.
Coords ==
    {AuxCoord(n, w) : n \in 1..MaxPoints,
                      w \in (0 - MaxHalfWidth)..MaxHalfWidth}

\* The values a cell is compared with.
Values == (0 - MaxHalfWidth - 1)..(MaxPoints + MaxHalfWidth)

\* The containment test with the bound ends excluded.
contains_point_open(cell, point) ==
    /\ MinSeq(cell.bound) < point
    /\ point < MaxSeq(cell.bound)

\* Cell.contains_point: np.min(self.bound) <= point <= np.max(self.bound)
contains_point(cell, point) ==
    /\ MinSeq(cell.bound) <= point
    /\ point <= MaxSeq(cell.bound)

\* cell == value for a cell with bounds and a number: Cell.__eq__ answers
\* with contains_point.
CellEq(cell, other) == contains_point(cell, other)

\* cell.point == value
PointEq(cell, other) == cell.point = other

InitCellComparison ==
    /\ pc = "cc_coord"
    /\ SparseUnbound
    /\ cubelist = Undefined /\ extracted_cm = Undefined
    /\ extracted_6_hr = Undefined
    /\ example_coord = Undefined /\ value = Undefined
    /\ cell_eq = Undefined /\ point_eq = Undefined
    /\ dummy_cube = Undefined /\ extracted_cell = Undefined
    /\ extracted_point = Undefined
    /\ a1b_cube = Undefined /\ uk_geom = Undefined
    /\ weights = Undefined /\ cube_collapsed = Undefined

\* example_coord = iris.coords.AuxCoord(points, bounds=bounds, ...)
MakeCoord ==
    /\ pc = "cc_coord"
    /\ example_coord' \in Coords
    /\ pc' = "cc_cell"
    /\ UNCHANGED <<value, cell_eq, point_eq, cmvars, cubevars_cc, awvars, sparsevars>>

\* value = 5; for cell in example_coord.cells(): print(..., cell==value)
CompareCells ==
    /\ pc = "cc_cell"
    /\ \E v \in Values :
        /\ value' = v
        /\ cell_eq' = [i \in 1..Len(example_coord) |->
                          CellEq(example_coord[i], v)]
    /\ pc' = "cc_point"
    /\ UNCHANGED <<example_coord, point_eq, cmvars, cubevars_cc, awvars, sparsevars>>

\* for cell in example_coord.cells(): print(..., cell.point==value)
ComparePoints ==
    /\ pc = "cc_point"
    /\ point_eq' = [i \in 1..Len(example_coord) |->
                       PointEq(example_coord[i], value)]
    /\ pc' = "cc_cube"
    /\ UNCHANGED <<example_coord, value, cell_eq, cmvars, cubevars_cc, awvars,
                   sparsevars>>

\* The literal the two constraints compare with.
constraint_value == 5

\* What extract returns when the constraint matches nothing.
None == [none |-> TRUE]

\* cell_comparison_constraint: lambda cell: cell == 5
cell_comparison_constraint(cell) == CellEq(cell, constraint_value)

\* The point constraint testing the cell: lambda cell: cell == 5.
cell_point_comparison_as_cell(cell) == CellEq(cell, constraint_value)

\* cell_point_comparison_constraint: lambda cell: cell.point == 5
cell_point_comparison_constraint(cell) == PointEq(cell, constraint_value)

\* cube.extract with a constraint on the cube's one coordinate: the function
\* is applied to each cell and the cube keeps the positions where it is
\* True, in order; the answer is None when it is True nowhere.
extract(cube, keep) ==
    IF \A i \in 1..Len(cube.cells) : ~keep[i]
    THEN None
    ELSE [cells |-> SelectIdx(cube.cells, keep)]

\* example_coord = iris.coords.DimCoord(points, bounds=bounds, ...);
\* dummy_cube.add_dim_coord(example_coord, 0): the same points and bounds.
MakeCube ==
    /\ pc = "cc_cube"
    /\ dummy_cube' = [cells |-> example_coord]
    /\ pc' = "cc_extract"
    /\ UNCHANGED <<ccvars, extracted_cell, extracted_point, cmvars, awvars,
                   sparsevars>>

\* print (dummy_cube.extract(cell_comparison_constraint).coord()):
\* None has no coord().
ExtractCell ==
    /\ pc = "cc_extract"
    /\ extracted_cell' =
           extract(dummy_cube,
                   [i \in 1..Len(dummy_cube.cells) |->
                       cell_comparison_constraint(dummy_cube.cells[i])])
    /\ IF extracted_cell' = None
       THEN error' = "AttributeError" /\ pc' = "failed"
       ELSE error' = error /\ pc' = "cc_extract_point"
    /\ UNCHANGED <<ccvars, dummy_cube, extracted_point, cmvars, awvars,
                   inputvars, cubevars, gridvars, resultvars, timevars>>

\* print (dummy_cube.extract(cell_point_comparison_constraint).coord())
ExtractPoint ==
    /\ pc = "cc_extract_point"
    /\ extracted_point' =
           extract(dummy_cube,
                   [i \in 1..Len(dummy_cube.cells) |->
                       cell_point_comparison_constraint(dummy_cube.cells[i])])
    /\ IF extracted_point' = None
       THEN error' = "AttributeError" /\ pc' = "failed"
       ELSE error' = error /\ pc' = "cc_done"
    /\ UNCHANGED <<ccvars, dummy_cube, extracted_cell, cmvars, awvars,
                   inputvars, cubevars, gridvars, resultvars, timevars>>

NextCellComparison ==
    \/ MakeCoord
    \/ CompareCells
    \/ ComparePoints
    \/ MakeCube
    \/ ExtractCell
    \/ ExtractPoint

SpecCellComparison == InitCellComparison /\ [][NextCellComparison]_vars

(***************************************************************************)
(* The "Shapefile area averaging" notebook.  Coordinates are whole degrees *)
(* whose points differ by even numbers, so that the half differences       *)
(* guess_bounds takes are whole; the geometry is a rectangle in the        *)
(* coordinates' own (Euclidean) space.                                     *)
(***************************************************************************)
\* The variables of the other notebooks, but for error.
restvars ==
    <<cmvars, ccvars, cubevars_cc, inputvars, cubevars, gridvars, resultvars,
      timevars>>

\* The points start, start + steps[1], start + steps[1] + steps[2], ...
PointsFrom(start, steps) ==
    [i \in 1..(Len(steps) + 1) |-> start + SumSeq(SubSeq(steps, 1, i - 1))]

\* The spacings of up to MaxGridPoints points, regular or not.
StepSeqs == UNION {[1..k -> {2, 4}] : k \in 0..(MaxGridPoints - 1)}

\* A coordinate of the file: with bounds a degree either side of each
\* point, or without bounds (the empty tuple).
FileCoord(name, points, bounded, circular) ==
    [name |-> name, points |-> points,
     bounds |-> IF bounded
                THEN [i \in 1..Len(points) |->
                         <<points[i] - 1, points[i] + 1>>]
                ELSE <<>>,
     circular |-> circular]

\* Regional latitudes from 50N.
LatCoords ==
    {FileCoord("latitude", PointsFrom(50, st), b, FALSE) :
        st \in StepSeqs, b \in BOOLEAN}

\* Regional longitudes from 0E, and a circular global longitude.
LonCoords ==
    {FileCoord("longitude", PointsFrom(0, st), b, FALSE) :
        st \in StepSeqs, b \in BOOLEAN}
    \cup {FileCoord("longitude", <<0, 120, 240>>, b, TRUE) : b \in BOOLEAN}

\* Temperatures rising by a along latitude and by b along longitude.
DataArrays(nlat, nlon) ==
    {[i \in 1..nlat |-> [j \in 1..nlon |-> 280 + a * i + b * j]] :
        a \in 0..MaxSlope, b \in 0..MaxSlope}

\* The cubes iris.load_cube may return.
A1bCubes ==
    UNION {{[data |-> d, lats |-> la, lons |-> lo] :
               d \in DataArrays(Len(la.points), Len(lo.points))} :
           la \in LatCoords, lo \in LonCoords}

\* The geometries: rectangles x0..x1 by y0..y1.
Geometries ==
    {[x0 |-> x[1], x1 |-> x[2], y0 |-> y[1], y1 |-> y[2]] :
        x \in {<<-1, 1>>, <<-1, 3>>, <<1, 5>>, <<200, 250>>},
        y \in {<<49, 51>>, <<50, 53>>, <<45, 47>>}}

\* coord.has_bounds()
has_bounds(coord) == Len(coord.bounds) > 0

\* coord.guess_bounds(): each bound lies half way to the neighbouring point,
\* the end spacings repeated beyond the ends (for a circular coordinate the
\* neighbours are the far end moved by the modulus, 360); latitude bounds
\* are clipped to -90..90.  A coordinate of one point or one that has
\* bounds is refused.
guess_bounds(coord) ==
    LET p == coord.points
        n == Len(p)
        direction == IF p[n] > p[1] THEN 1 ELSE -1
        ext == IF coord.circular
               THEN <<p[n] - 360 * direction>> \o p
                        \o <<p[1] + 360 * direction>>
               ELSE <<p[1] - (p[2] - p[1])>> \o p
                        \o <<p[n] + (p[n] - p[n - 1])>>
        diffs == [i \in 1..(n + 1) |-> ext[i + 1] - ext[i]]
        clip(v) == IF coord.name = "latitude"
                      /\ \A i \in 1..n : -90 <= p[i] /\ p[i] <= 90
                   THEN (IF v < -90 THEN -90 ELSE IF v > 90 THEN 90 ELSE v)
                   ELSE v
    IN  IF n < 2 \/ has_bounds(coord)
        THEN [err |-> "ValueError", coord |-> coord]
        ELSE [err |-> "none",
              coord |-> [coord EXCEPT !.bounds =
                  [i \in 1..n |->
                      <<clip(p[i] - FloorDiv(diffs[i], 2)),
                        clip(p[i] + FloorDiv(diffs[i + 1], 2))>>]]]

\* Bounds guessed whether or not the coordinate has some.
GuessAlways(coord) ==
    guess_bounds([coord EXCEPT !.bounds = <<>>])

\* if not coord.has_bounds(): coord.guess_bounds()
GuessIfUnbounded(coord) ==
    IF ~has_bounds(coord) THEN guess_bounds(coord)
    ELSE [err |-> "none", coord |-> coord]

\* The length two intervals share, whichever way round their ends are.
Overlap(a, b) ==
    LET lo == IF MinSeq(a) >= MinSeq(b) THEN MinSeq(a) ELSE MinSeq(b)
        hi == IF MaxSeq(a) <= MaxSeq(b) THEN MaxSeq(a) ELSE MaxSeq(b)
    IN  IF hi > lo THEN hi - lo ELSE 0

\* iag.geometry_area_weights(cube, geometry), normalize left False: for
\* each cell the area its box of bounds shares with the geometry.
geometry_area_weights(cube, geometry) ==
    [i \in 1..Len(cube.lats.points) |->
        [j \in 1..Len(cube.lons.points) |->
            Overlap(cube.lats.bounds[i], <<geometry.y0, geometry.y1>>)
                * Overlap(cube.lons.bounds[j], <<geometry.x0, geometry.x1>>)]]

\* The rows of a two-dimensional array one after the other.
Ravel(a) ==
    IF Len(a) = 0 THEN <<>>
    ELSE [k \in 1..(Len(a) * Len(a[1])) |->
             a[((k - 1) \div Len(a[1])) + 1][((k - 1) % Len(a[1])) + 1]]

\* sum(w * x) / sum(w); masked when the weights sum to zero.
WeightedMean(x, w) ==
    LET sw == SumSeq(w)
        swx == SumSeq([k \in 1..Len(x) |-> w[k] * x[k]])
    IN  IF sw = 0 THEN [mask |-> TRUE, data |-> <<0, 1>>]
        ELSE [mask |-> FALSE, data |-> Rat(swx, sw)]

\* cube.collapsed(['latitude', 'longitude'], iris.analysis.MEAN,
\*                weights=weights)
collapsed(cube, w) == WeightedMean(Ravel(cube.data), Ravel(w))

InitAreaWeights ==
    /\ pc = "aw_load"
    /\ SparseUnbound
    /\ cubelist = Undefined /\ extracted_cm = Undefined
    /\ extracted_6_hr = Undefined
    /\ example_coord = Undefined /\ value = Undefined
    /\ cell_eq = Undefined /\ point_eq = Undefined
    /\ dummy_cube = Undefined /\ extracted_cell = Undefined
    /\ extracted_point = Undefined
    /\ a1b_cube = Undefined /\ uk_geom = Undefined
    /\ weights = Undefined /\ cube_collapsed = Undefined

\* a1b_cube = iris.load_cube(iris.sample_data_path('A1B.2098.pp'))
LoadA1b ==
    /\ pc = "aw_load"
    /\ a1b_cube' \in A1bCubes
    /\ pc' = "aw_bounds"
    /\ UNCHANGED <<uk_geom, weights, cube_collapsed, error, restvars>>

\* lats = a1b_cube.coord('latitude'); lons = a1b_cube.coord('longitude');
\* bounds are guessed for each in turn where it has none.  The coordinates
\* are those of the cube, changed in place.
GuessBounds ==
    /\ pc = "aw_bounds"
    /\ LET la == GuessIfUnbounded(a1b_cube.lats)
           lo == GuessIfUnbounded(a1b_cube.lons)
       IN  IF la.err # "none"
           THEN /\ error' = la.err /\ pc' = "failed"
                /\ UNCHANGED a1b_cube
           ELSE IF lo.err # "none"
           THEN /\ error' = lo.err /\ pc' = "failed"
                /\ a1b_cube' = [a1b_cube EXCEPT !.lats = la.coord]
           ELSE /\ error' = error /\ pc' = "aw_geom"
                /\ a1b_cube' = [a1b_cube EXCEPT !.lats = la.coord,
                                                !.lons = lo.coord]
    /\ UNCHANGED <<uk_geom, weights, cube_collapsed, restvars>>

\* uk_geom, = [g for g in borders.records() if ...]
LoadGeometry ==
    /\ pc = "aw_geom"
    /\ uk_geom' \in Geometries
    /\ pc' = "aw_weights"
    /\ UNCHANGED <<a1b_cube, weights, cube_collapsed, error, restvars>>

\* weights = iag.geometry_area_weights(a1b_cube, uk_geom.geometry)
AreaWeights ==
    /\ pc = "aw_weights"
    /\ weights' = geometry_area_weights(a1b_cube, uk_geom)
    /\ pc' = "aw_collapse"
    /\ UNCHANGED <<a1b_cube, uk_geom, cube_collapsed, error, restvars>>

\* cube_collapsed = a1b_cube.collapsed([...], iris.analysis.MEAN,
\*                                     weights=weights)
Collapse ==
    /\ pc = "aw_collapse"
    /\ cube_collapsed' = collapsed(a1b_cube, weights)
    /\ pc' = "aw_done"
    /\ UNCHANGED <<a1b_cube, uk_geom, weights, error, restvars>>

NextAreaWeights ==
    \/ LoadA1b
    \/ GuessBounds
    \/ LoadGeometry
    \/ AreaWeights
    \/ Collapse

SpecAreaWeights == InitAreaWeights /\ [][NextAreaWeights]_vars

(***************************************************************************)
(* load_en3_with_quality_mask as a function of any data variable, QC       *)
(* variable and threshold.                                                 *)
(***************************************************************************)
\* An array of nd dimensions holding the elements of a tuple: the tuple
\* itself, or one row of it.
AsArray(nd, elems) == IF nd = 1 THEN elems ELSE <<elems>>

\* A file variable of up to MaxLoadLen elements drawn from values, any of
\* them masked in the file, with the given attributes.
FileVars(nd, n, values, attributes) ==
    {[nd |-> nd, attributes |-> attributes,
      data |-> AsArray(nd, d), mask |-> AsArray(nd, m)] :
        d \in [1..n -> values], m \in [1..n -> BOOLEAN]}

\* The thresholds: the range of the QC figures.
QcThresholds == 0..9

\* The calls explored on arrays of nd dimensions and n elements: a data
\* variable with or without '_fillvalue', a QC variable of the same shape
\* with or without one, and a threshold.
QcCalls(nd, n) ==
    {[main_var |-> mv, qc_var |-> qv, qc_max_valid |-> t] :
        mv \in FileVars(nd, n, {5, FillValue}, WithFill)
                   \cup FileVars(nd, n, {5, FillValue}, NoFill),
        qv \in FileVars(nd, n, {"0", "1", "2", "9"}, NoFill)
                   \cup FileVars(nd, n, {"0", "1", "2", "9"},
                                 [_fillvalue |-> "0"]),
        t \in QcThresholds}

InitLoadQc ==
    /\ pc = "qc_call"
    /\ error = "none"
    /\ \E nd \in {1, 2}, n \in 1..MaxLoadLen : file \in QcCalls(nd, n)
    /\ shape = Undefined /\ list_index = Undefined /\ zero_length = Undefined
    /\ potm = Undefined /\ depth = Undefined /\ longitude = Undefined
    /\ latitude = Undefined /\ time = Undefined
    /\ z_min = Undefined /\ z_max = Undefined /\ dz = Undefined
    /\ y_min = Undefined /\ y_max = Undefined /\ dy = Undefined
    /\ x_min = Undefined /\ x_max = Undefined /\ dx = Undefined
    /\ nz = Undefined /\ ny = Undefined /\ nx = Undefined
    /\ potm_mean = Undefined /\ potm_std_dev = Undefined
    /\ potm_counts = Undefined
    /\ time_min = Undefined /\ time_max = Undefined /\ time_coord = Undefined
    /\ cubelist = Undefined /\ extracted_cm = Undefined
    /\ extracted_6_hr = Undefined
    /\ example_coord = Undefined /\ value = Undefined
    /\ cell_eq = Undefined /\ point_eq = Undefined
    /\ dummy_cube = Undefined /\ extracted_cell = Undefined
    /\ extracted_point = Undefined
    /\ a1b_cube = Undefined /\ uk_geom = Undefined
    /\ weights = Undefined /\ cube_collapsed = Undefined

\* cube = load_en3_variable(main_var_name)
LoadMainVariable ==
    /\ pc = "qc_call"
    /\ potm' = load_en3_variable(file.main_var)
    /\ pc' = "qc_mask"
    /\ UNCHANGED <<othervars, inputvars, error, depth, longitude, latitude,
                   time, gridvars, resultvars, timevars>>

\* qc_data = load_en3_variable(qc_var_name).data ... return cube
ApplyQualityMask ==
    /\ pc = "qc_mask"
    /\ potm' = quality_mask(potm, file.main_var.nd, file.qc_var,
                            file.qc_max_valid)
    /\ pc' = "qc_done"
    /\ UNCHANGED <<othervars, inputvars, error, depth, longitude, latitude,
                   time, gridvars, resultvars, timevars>>

NextLoadQc ==
    \/ LoadMainVariable
    \/ ApplyQualityMask

SpecLoadQc == InitLoadQc /\ [][NextLoadQc]_vars

(***************************************************************************)
(* Vocabulary of the properties.                                           *)
(***************************************************************************)
\* The statements of cells 5 and 6 have run.
Regridding ==
    pc \in {"regrid_mean", "regrid_std_dev", "regrid_counts", "mask_counts",
            "time_coord", "save", "done", "failed"}

\* The three results of cell 8 are bound and not yet masked by the count.
Regridded == pc = "mask_counts"

NObs == NProfiles * NSamples
ProfileOf(k) == ((k - 1) \div NSamples) + 1
SampleOf(k) == ((k - 1) % NSamples) + 1

\* The index triple of the k-th flattened observation.
KeyOf(k) == <<i_depth_coord[k], i_lat_coord(potm)[k], i_lon_coord(potm)[k]>>
ObsInGrid(k) == InGrid(KeyOf(k), nz, ny, nx)

\* The QC figure of the k-th value exceeds the threshold of cell 5.
ValueQcFailed(k) ==
    /\ ~file.potm_qc.mask[ProfileOf(k)][SampleOf(k)]
    /\ QcToInt(file.potm_qc.data[ProfileOf(k)][SampleOf(k)]) > potm_qc_max_valid

\* The depth or the position of the k-th observation failed its quality
\* check or is missing: it is masked in the loaded cubes.
LocationExcluded(k) ==
    \/ depth.mask[ProfileOf(k)][SampleOf(k)]
    \/ latitude.mask[ProfileOf(k)]
    \/ longitude.mask[ProfileOf(k)]

\* The k-th observation has a usable value.
ValuePassed(k) == ~potm.mask[ProfileOf(k)][SampleOf(k)]

\* The k-th observation contributes under the specified exclusions.
Contributing(k) == ValuePassed(k) /\ ~LocationExcluded(k) /\ ObsInGrid(k)

RemoveAt(s, k) == [i \in 1..(Len(s) - 1) |-> IF i < k THEN s[i] ELSE s[i + 1]]

\* aggregate_to_grid on the observations without the k-th one.
RegridWithout(k, phenom, aggregator) ==
    regrid_flat(RemoveAt(Flat(phenom), k), RemoveAt(i_depth_coord, k),
                RemoveAt(i_lat_coord(phenom), k),
                RemoveAt(i_lon_coord(phenom), k), aggregator)

\* Leaving out observation k changes none of the three results of cell 8.
SameWithout(k) ==
    /\ RegridWithout(k, potm, "MEAN") = [err |-> "none", data |-> potm_mean]
    /\ RegridWithout(k, potm, "STD_DEV") = [err |-> "none", data |-> potm_std_dev]
    /\ RegridWithout(k, potm, "COUNT") = [err |-> "none", data |-> potm_counts]

(***************************************************************************)
(* C1. The gridcell index aggregate_to_grid gives a coordinate value v on  *)
(* an axis (min, step) is floor((v - min) / step): it is the one index i   *)
(* with min + i*step <= v < min + (i+1)*step, so a value on a cell's lower *)
(* bound belongs to that cell and a value on its upper bound to the next.  *)
(***************************************************************************)
IsCellOf(i, v, start, step) ==
    start + i * step <= v /\ v < start + (i + 1) * step

C1_IndexIsFloor ==
    Regridding =>
        \A k \in 1..NObs :
            /\ ~depth.mask[ProfileOf(k)][SampleOf(k)] =>
                  IsCellOf(i_depth_coord[k],
                           depth.data[ProfileOf(k)][SampleOf(k)], z_min, dz)
            /\ IsCellOf(i_lat_coord(potm)[k], latitude.data[ProfileOf(k)],
                        y_min, dy)
            /\ IsCellOf(i_lon_coord(potm)[k], longitude.data[ProfileOf(k)],
                        x_min, dx)

\* A latitude on the bound between cells 0 and 1 with a longitude on the
\* lower bound of the grid, and a latitude below the grid, have been indexed.
C1_Witness ==
    /\ pc = "regrid_std_dev"
    /\ \E k \in 1..NObs :
          /\ latitude.data[ProfileOf(k)] = y_min + dy
          /\ i_lat_coord(potm)[k] = 1
          /\ longitude.data[ProfileOf(k)] = x_min
          /\ i_lon_coord(potm)[k] = 0
    /\ \E k \in 1..NObs :
          /\ latitude.data[ProfileOf(k)] < y_min
          /\ i_lat_coord(potm)[k] = -1

(***************************************************************************)
(* C2. An observation whose value QC figure is above the threshold never   *)
(* contributes: the MEAN, STD_DEV and COUNT grids are the same with the    *)
(* observation left out.                                                   *)
(***************************************************************************)
C2_QcFailedNeverContributes ==
    (Regridded /\ NObs >= 2) =>
        \A k \in 1..NObs : ValueQcFailed(k) => SameWithout(k)

(***************************************************************************)
(* C3. An observation whose depth or position failed its quality check or  *)
(* is missing contributes to no cell: the MEAN, STD_DEV and COUNT grids    *)
(* are the same with the observation left out.                             *)
(***************************************************************************)
C3_BadLocationNeverContributes ==
    (Regridded /\ NObs >= 2) =>
        \A k \in 1..NObs : LocationExcluded(k) => SameWithout(k)

(***************************************************************************)
(* C4. When N observations map to M < N distinct in-grid cells, the        *)
(* assignment of the M aggregated values succeeds, every one of the M      *)
(* cells holds its own value and no other grid position is written.        *)
(***************************************************************************)
\* The in-grid categories of the observations with their aggregated MEAN.
MeanCells ==
    LET rc == aggregated_by(Flat(potm), [k \in 1..NObs |-> KeyOf(k)], "MEAN")
    IN  SelectIdx(rc, [m \in 1..Len(rc) |-> InGrid(rc[m].key, nz, ny, nx)])

C4_ScatterOneValuePerCell ==
    (pc \in {"regrid_std_dev", "failed"} /\ Len(MeanCells) < NObs) =>
        /\ error = "none"
        /\ \A c \in Cells(nz, ny, nx) :
              potm_mean[c] =
                  IF \E m \in 1..Len(MeanCells) : MeanCells[m].key = c
                  THEN (MeanCells[CHOOSE m \in 1..Len(MeanCells) :
                                      MeanCells[m].key = c]).cell
                  ELSE MaskedCell

(***************************************************************************)
(* C5. An observation whose index triple is outside the grid on any axis   *)
(* is silently discarded: aggregate_to_grid ends as it does without the    *)
(* observation (the same exception or none), and every result grid is the  *)
(* one obtained without it.                                                *)
(***************************************************************************)
C5_OutOfGridDiscarded ==
    \A k \in 1..(IF Regridding /\ NObs >= 2 THEN NObs ELSE 0) :
        ~ObsInGrid(k) =>
            /\ pc = "failed" => RegridWithout(k, potm, "MEAN").err = error
            /\ pc = "regrid_std_dev" =>
                  RegridWithout(k, potm, "MEAN")
                      = [err |-> "none", data |-> potm_mean]
            /\ pc = "regrid_counts" =>
                  RegridWithout(k, potm, "STD_DEV")
                      = [err |-> "none", data |-> potm_std_dev]
            /\ pc \in {"mask_counts", "time_coord", "save", "done"} =>
                  RegridWithout(k, potm, "COUNT")
                      = [err |-> "none", data |-> potm_counts]
            /\ pc \in {"save", "done"} =>
                  /\ RegridWithout(k, time2d, "MIN")
                        = [err |-> "none", data |-> time_min]
                  /\ RegridWithout(k, time2d, "MAX")
                        = [err |-> "none", data |-> time_max]

\* An observation with a usable value outside the grid was dropped beside
\* in-grid ones in a run that bound every result.
C5_Witness ==
    /\ pc = "done"
    /\ \E k \in 1..NObs : ~ObsInGrid(k) /\ ValuePassed(k)
    /\ \E k \in 1..NObs : ObsInGrid(k) /\ ~potm_counts[KeyOf(k)].mask

(***************************************************************************)
(* C6. The sum of the COUNT grid over its non-missing cells equals the     *)
(* number of observations that passed the quality check and whose index    *)
(* triple is inside the grid.                                              *)
(***************************************************************************)
RECURSIVE SumOver(_, _)
SumOver(S, f) ==
    IF S = {} THEN 0
    ELSE LET c == CHOOSE x \in S : TRUE
         IN  f[c] + SumOver(S \ {c}, f)

CountSum ==
    SumOver({c \in DOMAIN potm_counts : ~potm_counts[c].mask},
            [c \in DOMAIN potm_counts |-> potm_counts[c].data[1]])

C6_CountSumIsAccepted ==
    pc \in {"mask_counts", "time_coord", "save", "done"} =>
        CountSum = Cardinality({k \in 1..NObs : Contributing(k)})

(***************************************************************************)
(* C7. A cell with at most 3 contributing observations is missing in the   *)
(* mean and in the standard-deviation grid, and a cell with 4 or more      *)
(* contributing observations reports a mean.                               *)
(***************************************************************************)
ContribCount(c) == Cardinality({k \in 1..NObs : Contributing(k) /\ KeyOf(k) = c})

C7_MinCountMasksCell ==
    pc = "done" =>
        \A c \in Cells(nz, ny, nx) :
            /\ ContribCount(c) <= count_threshold =>
                  potm_mean[c].mask /\ potm_std_dev[c].mask
            /\ ContribCount(c) > count_threshold => ~potm_mean[c].mask

C9_EmptyCellsMissing ==
    \A c \in (IF pc \in {"mask_counts", "save"} THEN Cells(nz, ny, nx) ELSE {}) :
        ContribCount(c) = 0 =>
            /\ potm_mean[c].mask
            /\ potm_std_dev[c].mask
            /\ potm_counts[c].mask
            /\ pc = "save" => time_min[c].mask /\ time_max[c].mask

(***************************************************************************)
(* C10. Grid depth [0,100) step 50, latitude and longitude [-10,10) step   *)
(* 10; observations (5, qc 1, t 0), (7, qc 1, t 1), (100, qc 9, t 2), all  *)
(* at depth 10, latitude -5, longitude -5: cell (0,0,0) has MEAN 6,        *)
(* COUNT 2 and time interval [0, 1].                                       *)
(***************************************************************************)
Scenario ==
    /\ Regridding
    /\ shape = <<3, 1>>
    /\ file = MakeFile(<<3, 1>>, <<<<S_ok5>>, <<S_ok7>>, <<S_badqc>>>>,
                       <<P_base, P_base, P_base>>, <<0, 1, 2>>)
    /\ <<z_min, z_max, dz>> = <<0, 100, 50>>
    /\ <<y_min, y_max, dy>> = <<-10, 10, 10>>
    /\ <<x_min, x_max, dx>> = <<-10, 10, 10>>

C10_Scenario ==
    Scenario =>
        /\ pc = "mask_counts" =>
              /\ potm_mean[<<0, 0, 0>>] = [data |-> RatInt(6), mask |-> FALSE]
              /\ potm_counts[<<0, 0, 0>>] = [data |-> RatInt(2), mask |-> FALSE]
        /\ pc = "done" =>
              time_coord.bounds[<<0, 0, 0>>] = <<RatInt(0), RatInt(1)>>

(***************************************************************************)
(* C11. For every cell with contributing observations the time interval is *)
(* (minimum, maximum) of the time over exactly the observations that       *)
(* contribute to the cell and the centre is their midpoint; for every cell *)
(* without contributing observations interval and centre are missing.      *)
(***************************************************************************)
\* The times of the observations contributing to cell c, in input order.
ContribTimes(c) ==
    LET ks == SelectIdx([k \in 1..NObs |-> k],
                        [k \in 1..NObs |-> Contributing(k) /\ KeyOf(k) = c])
    IN  [m \in 1..Len(ks) |-> time.data[ProfileOf(ks[m])]]

C11_TimeIntervalOfContributing ==
    pc \in {"save", "done"} =>
        \A c \in Cells(nz, ny, nx) :
            IF ContribCount(c) > 0
            THEN LET lo == RatInt(MinSeq(ContribTimes(c)))
                     hi == RatInt(MaxSeq(ContribTimes(c)))
                 IN  /\ time_min[c] = [data |-> lo, mask |-> FALSE]
                     /\ time_max[c] = [data |-> hi, mask |-> FALSE]
                     /\ time_coord.bounds[c] = <<lo, hi>>
                     /\ time_coord.points[c]
                            = [data |-> RatMid(lo, hi), mask |-> FALSE]
            ELSE /\ time_min[c].mask /\ time_max[c].mask
                 /\ time_coord.points[c].mask

(***************************************************************************)
(* C12. The MEAN of a cell with exactly one contributing observation is    *)
(* that observation's value, and the STD_DEV of the single-observation     *)
(* cells follows one policy: missing in all of them, or 0 in all of them.  *)
(***************************************************************************)
\* The cells with exactly one contributing observation.
SingleCells == {c \in Cells(nz, ny, nx) : ContribCount(c) = 1}

\* The value of the one observation contributing to a cell of SingleCells.
SingleValue(c) ==
    LET k == CHOOSE j \in 1..NObs : Contributing(j) /\ KeyOf(j) = c
    IN  potm.data[ProfileOf(k)][SampleOf(k)]

C12_SingleObservationCell ==
    Regridded =>
        /\ \A c \in SingleCells :
              potm_mean[c] = [data |-> RatInt(SingleValue(c)), mask |-> FALSE]
        /\ \/ \A c \in SingleCells : potm_std_dev[c].mask
           \/ \A c \in SingleCells :
                 potm_std_dev[c] = [data |-> RatInt(0), mask |-> FALSE]

(***************************************************************************)
(* C13. Grid parameters in which an axis has a step of zero or a negative  *)
(* step are rejected as a configuration error: by the time the first call  *)
(* of aggregate_to_grid has ended the run has failed, and no result grid   *)
(* is produced.                                                            *)
(***************************************************************************)
\* Cell 6 has run with a step that is not positive.
NonPositiveStep ==
    /\ Regridding
    /\ dz <= 0 \/ dy <= 0 \/ dx <= 0

C13_NonPositiveStepRejected ==
    (NonPositiveStep /\ pc # "regrid_mean") =>
        /\ pc = "failed"
        /\ potm_mean = Undefined /\ potm_std_dev = Undefined
        /\ potm_counts = Undefined /\ time_coord = Undefined

(***************************************************************************)
(* C14. For a file without observations aggregate_to_grid returns, without *)
(* error, a grid of shape (nz, ny, nx) in which every cell is missing.     *)
(***************************************************************************)
C14_EmptyInputAllMissing ==
    (NObs = 0 /\ pc \in {"regrid_std_dev", "failed"}) =>
        /\ error = "none"
        /\ DOMAIN potm_mean = Cells(nz, ny, nx)
        /\ \A c \in Cells(nz, ny, nx) : potm_mean[c].mask

(***************************************************************************)
(* C15. The result of aggregate_to_grid is the same for every permutation  *)
(* of the observations: for MEAN, STD_DEV, COUNT, MIN and MAX, reordering  *)
(* the input changes neither the outcome of the call, nor which cells are  *)
(* missing, nor any cell's value.                                          *)
(***************************************************************************)
\* The permutations of 1..n.
Perms(n) ==
    {f \in [1..n -> 1..n] : \A i, j \in 1..n : f[i] = f[j] => i = j}

Permute(s, f) == [i \in 1..Len(s) |-> s[f[i]]]

\* aggregate_to_grid on the observations reordered by f.
RegridPermuted(f, phenom, aggregator) ==
    regrid_flat(Permute(Flat(phenom), f), Permute(i_depth_coord, f),
                Permute(i_lat_coord(phenom), f),
                Permute(i_lon_coord(phenom), f), aggregator)

C15_PermutationInvariant ==
    \A f \in (IF Regridding THEN Perms(NObs) ELSE {}) :
        /\ pc = "failed" => RegridPermuted(f, potm, "MEAN").err = error
        /\ pc = "regrid_std_dev" =>
              RegridPermuted(f, potm, "MEAN")
                  = [err |-> "none", data |-> potm_mean]
        /\ pc = "regrid_counts" =>
              RegridPermuted(f, potm, "STD_DEV")
                  = [err |-> "none", data |-> potm_std_dev]
        /\ pc = "mask_counts" =>
              RegridPermuted(f, potm, "COUNT")
                  = [err |-> "none", data |-> potm_counts]
        /\ pc = "save" =>
              /\ RegridPermuted(f, time2d, "MIN")
                    = [err |-> "none", data |-> time_min]
              /\ RegridPermuted(f, time2d, "MAX")
                    = [err |-> "none", data |-> time_max]

(***************************************************************************)
(* C16. aggregate_to_grid has no side effects: after every call the        *)
(* phenomenon, depth, latitude, longitude and time cubes are as they were  *)
(* loaded and the grid parameters as cell 6 set them, and a second call    *)
(* with the same inputs returns a grid equal to the first.                 *)
(***************************************************************************)
\* The cubes are what cell 5 loaded from the file.
InputsAsLoaded ==
    /\ potm = load_en3_with_quality_mask(file.potm, file.potm_qc,
                                         potm_qc_max_valid)
    /\ depth = load_en3_with_quality_mask(file.depth, file.depth_qc,
                                          default_qc_max_valid)
    /\ longitude = load_en3_with_quality_mask(file.lon, file.pos_qc,
                                              position_qc_max_valid)
    /\ latitude = load_en3_with_quality_mask(file.lat, file.pos_qc,
                                             position_qc_max_valid)
    /\ time = load_en3_with_quality_mask(file.time, file.time_qc,
                                         default_qc_max_valid)

\* The grid parameters are what cell 6 set.
GridAsDefined ==
    \E g \in GridSpecs :
        /\ <<z_min, z_max, dz>> = g.z
        /\ <<y_min, y_max, dy>> = g.y
        /\ <<x_min, x_max, dx>> = g.x
        /\ nz = TruncDiv(z_max - z_min, dz)
        /\ ny = TruncDiv(y_max - y_min, dy)
        /\ nx = TruncDiv(x_max - x_min, dx)

CompleteGrid(grid) ==
    grid # Undefined => DOMAIN grid = Cells(nz, ny, nx)

C17_AllOrNothing ==
    /\ pc = "failed" =>
          /\ potm_mean = Undefined /\ potm_std_dev = Undefined
          /\ potm_counts = Undefined
          /\ time_min = Undefined /\ time_max = Undefined
          /\ time_coord = Undefined
    /\ CompleteGrid(potm_mean) /\ CompleteGrid(potm_std_dev)
    /\ CompleteGrid(potm_counts)
    /\ CompleteGrid(time_min) /\ CompleteGrid(time_max)
    /\ time_coord # Undefined =>
          /\ DOMAIN time_coord.points = Cells(nz, ny, nx)
          /\ DOMAIN time_coord.bounds = Cells(nz, ny, nx)

\* The assignment of the aggregated values has raised for a file with
\* observations in the grid.
C17_Witness ==
    /\ pc = "failed"
    /\ error = "ValueError"
    /\ \E k \in 1..NObs : ObsInGrid(k)

(***************************************************************************)
(* C18. cubelist.extract(cm_constraint) is the list of exactly the cubes   *)
(* of cubelist whose cell_methods tuple is not empty, in the order of      *)
(* cubelist: no cube without cell methods is returned and every cube with  *)
(* at least one cell method is returned.                                   *)
(***************************************************************************)
\* The j-th smallest member of a set of indices.
Nth(K, j) == CHOOSE i \in K : Cardinality({k \in K : k <= i}) = j

\* The members of a list at the indices K, in the order of the list.
Picked(list, K) == [j \in 1..Cardinality(K) |-> list[Nth(K, j)]]

CmExtracted == pc \in {"cm_extract_6_hr", "cm_done"}

C18_ExtractHasCellMethods ==
    CmExtracted =>
        /\ extracted_cm =
               Picked(cubelist, {i \in 1..Len(cubelist) :
                                    cubelist[i].cell_methods # <<>>})
        /\ \A j \in 1..Len(extracted_cm) :
               extracted_cm[j].cell_methods # <<>>
        /\ \A i \in 1..Len(cubelist) :
               cubelist[i].cell_methods # <<>> =>
                   \E j \in 1..Len(extracted_cm) :
                       extracted_cm[j] = cubelist[i]

\* The notebook's own list: the two cubes without cell methods are left out.
C18_Witness ==
    /\ CmExtracted
    /\ cubelist = <<C_theta, C_pressure, C_a1b, C_ostia>>
    /\ extracted_cm = <<C_a1b, C_ostia>>

(***************************************************************************)
(* C19. cubelist.extract(constraint_6_hr) is the list of exactly the cubes *)
(* with a cell method equal to CellMethod('mean', coords='time',           *)
(* intervals='6 hour'); a cube whose cell methods all differ from it in    *)
(* the coordinates or in the interval is not returned, and every cube      *)
(* returned is also returned by the has_cell_methods constraint.           *)
(***************************************************************************)
Mean6Hr ==
    [method |-> "mean", coord_names |-> <<"time">>,
     intervals |-> <<"6 hour">>, comments |-> <<>>]

HasMean6Hr(cube) ==
    \E j \in 1..Len(cube.cell_methods) :
        /\ cube.cell_methods[j].method = "mean"
        /\ cube.cell_methods[j].coord_names = <<"time">>
        /\ cube.cell_methods[j].intervals = <<"6 hour">>
        /\ cube.cell_methods[j].comments = <<>>

C19_ExtractSixHour ==
    pc = "cm_done" =>
        /\ extracted_6_hr =
               Picked(cubelist, {i \in 1..Len(cubelist) :
                                    HasMean6Hr(cubelist[i])})
        /\ \A j \in 1..Len(extracted_6_hr) :
               /\ Mean6Hr \in {extracted_6_hr[j].cell_methods[k] :
                                  k \in 1..Len(extracted_6_hr[j].cell_methods)}
               /\ \E k \in 1..Len(extracted_cm) :
                      extracted_cm[k] = extracted_6_hr[j]
        /\ \A i \in 1..Len(cubelist) :
               (\A k \in 1..Len(cubelist[i].cell_methods) :
                    \/ cubelist[i].cell_methods[k].coord_names # <<"time">>
                    \/ cubelist[i].cell_methods[k].intervals # <<"6 hour">>)
               => \A j \in 1..Len(extracted_6_hr) :
                      extracted_6_hr[j] # cubelist[i]

\* Cubes with a 'mean' over another interval and over another coordinate
\* stand beside two that hold the 6-hour mean over time.
C19_Witness ==
    /\ pc = "cm_done"
    /\ cubelist = <<C_1_hr, C_a1b, C_lat, C_max_mean>>
    /\ extracted_6_hr = <<C_a1b, C_max_mean>>
    /\ extracted_cm = cubelist

(***************************************************************************)
(* C20. For a cell with bounds, cell == value is True when the value lies  *)
(* between the two ends of the cell's bounds, the ends included, and False *)
(* otherwise; for the coordinate with points 0..10 and bounds              *)
(* (point - 2, point + 2) exactly the cells with points 3..7 equal 5.      *)
(***************************************************************************)
CellsCompared ==
    pc \in {"cc_point", "cc_cube", "cc_extract", "cc_extract_point", "cc_done"}
        \/ pc = "failed"

\* The coordinate of the notebook.
NotebookCoord ==
    [i \in 1..11 |-> [point |-> i - 1, bound |-> <<i - 3, i + 1>>]]

C20_CellEqualsWithinBounds ==
    CellsCompared =>
        /\ \A i \in 1..Len(example_coord) :
               LET b == example_coord[i].bound
               IN  cell_eq[i] <=>
                       \/ b[1] <= value /\ value <= b[2]
                       \/ b[2] <= value /\ value <= b[1]
        /\ (example_coord = NotebookCoord /\ value = 5) =>
               {example_coord[i].point : i \in {k \in 1..11 : cell_eq[k]}}
                   = 3..7

\* The notebook's coordinate compared with 5: the cells of points 3 and 7
\* have 5 at an end of their bounds and equal it, those of 2 and 8 do not.
C20_Witness ==
    /\ CellsCompared
    /\ example_coord = NotebookCoord
    /\ value = 5
    /\ cell_eq[4] /\ cell_eq[8]
    /\ ~cell_eq[3] /\ ~cell_eq[9]

(***************************************************************************)
(* C21. cell.point == value is True exactly when the value equals the      *)
(* cell's point, whatever the bounds.  Extracting with the point           *)
(* constraint returns only cells with point 5, the cell constraint         *)
(* returns the cells whose bounds hold 5, and every cell the point         *)
(* constraint returns is returned by the cell constraint; for the          *)
(* notebook's coordinate these are the cell of point 5 and the cells of    *)
(* points 3..7.                                                            *)
(***************************************************************************)
PointsCompared ==
    pc \in {"cc_cube", "cc_extract", "cc_extract_point", "cc_done", "failed"}

\* The cells of an extract result; none for None.
CellsOf(result) ==
    IF result = None THEN {}
    ELSE {result.cells[j] : j \in 1..Len(result.cells)}

C21_PointEqualsPointOnly ==
    /\ PointsCompared =>
           \A i \in 1..Len(example_coord) :
               point_eq[i] <=> (example_coord[i].point = value)
    /\ extracted_cell # Undefined =>
           /\ CellsOf(extracted_cell) =
                  {c \in CellsOf(dummy_cube) :
                      \/ c.bound[1] <= 5 /\ 5 <= c.bound[2]
                      \/ c.bound[2] <= 5 /\ 5 <= c.bound[1]}
           /\ dummy_cube.cells = NotebookCoord =>
                  {c.point : c \in CellsOf(extracted_cell)} = 3..7
    /\ extracted_point # Undefined =>
           /\ CellsOf(extracted_point) =
                  {c \in CellsOf(dummy_cube) : c.point = 5}
           /\ CellsOf(extracted_point) \subseteq CellsOf(extracted_cell)
           /\ extracted_point # None => Len(extracted_point.cells) = 1

\* The notebook's cube: the point constraint returns the one cell of point
\* 5, the cell constraint the five cells of points 3..7.
C21_Witness ==
    /\ pc = "cc_done"
    /\ dummy_cube.cells = NotebookCoord
    /\ extracted_point.cells = <<NotebookCoord[6]>>
    /\ Len(extracted_cell.cells) = 5
    /\ \E i \in 1..Len(example_coord) :
           point_eq[i] /\ example_coord[i].point = value

(***************************************************************************)
(* C22. In the weighted mean over latitude and longitude each cell counts  *)
(* in proportion to the fraction of its area inside the geometry: the      *)
(* result is sum(f * x) / sum(f) with f the fraction of the cell's box     *)
(* that the geometry covers (1 for a cell entirely inside), and changing   *)
(* the value of a cell with no overlap does not change it.                 *)
(***************************************************************************)
\* The least common multiple of positive numbers.
RECURSIVE LcmSeq(_)
LcmSeq(s) ==
    IF s = <<>> THEN 1
    ELSE LET m == LcmSeq(Tail(s))
         IN  (Head(s) \div GCD(Head(s), m)) * m

\* The areas of the cells' boxes, row after row.
CellAreas(cube) ==
    Ravel([i \in 1..Len(cube.lats.points) |->
              [j \in 1..Len(cube.lons.points) |->
                  Abs(cube.lats.bounds[i][2] - cube.lats.bounds[i][1])
                      * Abs(cube.lons.bounds[j][2] - cube.lons.bounds[j][1])]])

\* The areas the cells share with the geometry, row after row.
OverlapAreas(cube, geometry) ==
    Ravel([i \in 1..Len(cube.lats.points) |->
              [j \in 1..Len(cube.lons.points) |->
                  Overlap(cube.lats.bounds[i], <<geometry.y0, geometry.y1>>)
                      * Overlap(cube.lons.bounds[j],
                                <<geometry.x0, geometry.x1>>)]])

\* sum(f * x) / sum(f) for f = overlap / area, the fractions brought to the
\* common denominator of the least common multiple of the areas.
FractionMean(cube, geometry) ==
    LET area == CellAreas(cube)
        ov == OverlapAreas(cube, geometry)
        all == LcmSeq(area)
        f == [k \in 1..Len(area) |-> ov[k] * (all \div area[k])]
    IN  WeightedMean(Ravel(cube.data), f)

\* The cube with the value of cell (i, j) raised by one.
Changed(cube, i, j) == [cube EXCEPT !.data[i][j] = @ + 1]

C22_WeightIsAreaFraction ==
    pc = "aw_done" =>
        /\ cube_collapsed = FractionMean(a1b_cube, uk_geom)
        /\ \A i \in 1..Len(a1b_cube.lats.points) :
               \A j \in 1..Len(a1b_cube.lons.points) :
                   Overlap(a1b_cube.lats.bounds[i], <<uk_geom.y0, uk_geom.y1>>)
                       * Overlap(a1b_cube.lons.bounds[j],
                                 <<uk_geom.x0, uk_geom.x1>>) = 0
                   => collapsed(Changed(a1b_cube, i, j), weights)
                          = cube_collapsed

(***************************************************************************)
(* C23. Before the weights are computed both lateral coordinates have      *)
(* bounds: the step that guesses bounds changes a coordinate only if it    *)
(* has none, leaves a coordinate with bounds (and all points and data) as  *)
(* it was, and fails only for an unbounded coordinate too short to guess   *)
(* from.                                                                   *)
(***************************************************************************)
BoundsNeeded == pc \in {"aw_geom", "aw_weights", "aw_collapse", "aw_done"}

C23_BoundsGuessedOnlyIfNone ==
    /\ [](BoundsNeeded =>
              /\ Len(a1b_cube.lats.bounds) = Len(a1b_cube.lats.points)
              /\ Len(a1b_cube.lons.bounds) = Len(a1b_cube.lons.points))
    /\ [][pc = "aw_bounds" =>
              /\ Len(a1b_cube.lats.bounds) > 0 =>
                     a1b_cube'.lats = a1b_cube.lats
              /\ Len(a1b_cube.lons.bounds) > 0 =>
                     a1b_cube'.lons = a1b_cube.lons
              /\ a1b_cube'.lats.points = a1b_cube.lats.points
              /\ a1b_cube'.lons.points = a1b_cube.lons.points
              /\ a1b_cube'.data = a1b_cube.data
              /\ pc' = "failed" =>
                     \/ /\ a1b_cube.lats.bounds = <<>>
                        /\ Len(a1b_cube.lats.points) < 2
                     \/ /\ a1b_cube.lons.bounds = <<>>
                        /\ Len(a1b_cube.lons.points) < 2]_vars

\* The latitude came with bounds a degree either side of its points and
\* keeps them; the longitude came without and has the guessed ones.
C23_Witness ==
    /\ pc = "aw_geom"
    /\ a1b_cube.lats.points = <<50, 54>>
    /\ a1b_cube.lats.bounds = <<<<49, 51>>, <<53, 55>>>>
    /\ a1b_cube.lons.points = <<0, 4>>
    /\ a1b_cube.lons.bounds = <<<<-2, 2>>, <<2, 6>>>>

(***************************************************************************)
(* C24. load_en3_with_quality_mask masks a point on account of quality     *)
(* exactly when its QC figure is strictly greater than qc_max_valid: the   *)
(* returned mask is the mask of the loaded data variable or-ed with        *)
(* "QC figure present and > qc_max_valid".  A figure equal to the          *)
(* threshold and a missing figure (masked in the file, or equal to the QC  *)
(* variable's '_fillvalue') leave the point as it was.                     *)
(***************************************************************************)
\* The elements of an array of 1 or 2 dimensions, row after row.
Elems(nd, a) == IF nd = 1 THEN a ELSE Ravel(a)

\* The QC figure of element k is missing.
QcMissing(qc_var, k) ==
    \/ Elems(qc_var.nd, qc_var.mask)[k]
    \/ /\ "_fillvalue" \in DOMAIN qc_var.attributes
       /\ Elems(qc_var.nd, qc_var.data)[k] = qc_var.attributes._fillvalue

\* Element k of the data variable is missing: masked in the file or equal
\* to the '_fillvalue' attribute.
DataMissing(main_var, k) ==
    \/ Elems(main_var.nd, main_var.mask)[k]
    \/ /\ "_fillvalue" \in DOMAIN main_var.attributes
       /\ Elems(main_var.nd, main_var.data)[k]
              = main_var.attributes._fillvalue

\* The QC figure of element k as a number.
QcFigure(qc_var, k) ==
    CHOOSE q \in 0..9 : ToString(q) = Elems(qc_var.nd, qc_var.data)[k]

C24_MaskedIffQcAboveThreshold ==
    pc = "qc_done" =>
        LET nd == file.main_var.nd
            m  == Elems(nd, potm.mask)
        IN  /\ Len(m) = Len(Elems(nd, file.main_var.data))
            /\ \A k \in 1..Len(m) :
                   /\ m[k] <=>
                          \/ DataMissing(file.main_var, k)
                          \/ /\ ~QcMissing(file.qc_var, k)
                             /\ QcFigure(file.qc_var, k) > file.qc_max_valid
                   /\ (~DataMissing(file.main_var, k)
                         /\ (QcMissing(file.qc_var, k)
                               \/ QcFigure(file.qc_var, k)
                                      = file.qc_max_valid))
                      => ~m[k]

\* A point whose QC figure equals the threshold is left unmasked.
C24_Witness ==
    /\ pc = "qc_done"
    /\ file.main_var.nd = 1
    /\ file.main_var.data = <<5>> /\ file.main_var.mask = <<FALSE>>
    /\ file.qc_var.data = <<"2">> /\ file.qc_var.mask = <<FALSE>>
    /\ file.qc_max_valid = 2
    /\ potm.mask = <<FALSE>>

(***************************************************************************)
(* C25. The mask of a loaded variable only grows: every point masked in    *)
(* the file or equal to the '_fillvalue' attribute is masked after         *)
(* load_en3_variable and in the cube load_en3_with_quality_mask returns,   *)
(* and the QC step leaves every masked point masked and the data as it     *)
(* was.                                                                    *)
(***************************************************************************)
C25_MaskOnlyGrows ==
    /\ [](pc \in {"qc_mask", "qc_done"} =>
              \A k \in 1..Len(Elems(file.main_var.nd, file.main_var.data)) :
                  DataMissing(file.main_var, k)
                      => Elems(file.main_var.nd, potm.mask)[k])
    /\ [][pc = "qc_mask" =>
              /\ potm'.data = potm.data
              /\ \A k \in 1..Len(Elems(file.main_var.nd, potm.mask)) :
                     Elems(file.main_var.nd, potm.mask)[k]
                         => Elems(file.main_var.nd, potm'.mask)[k]]_vars

\* A point masked in the file whose value is not the fill value and whose
\* QC figure passes is masked in the returned cube.
C25_Witness ==
    /\ pc = "qc_done"
    /\ file.main_var.nd = 2
    /\ "_fillvalue" \in DOMAIN file.main_var.attributes
    /\ file.main_var.data = <<<<5>>>> /\ file.main_var.mask = <<<<TRUE>>>>
    /\ file.qc_var.data = <<<<"1">>>> /\ file.qc_var.mask = <<<<FALSE>>>>
    /\ file.qc_max_valid = 9
    /\ potm.mask = <<<<TRUE>>>>

(***************************************************************************)
(* C26. In aggregate_to_grid the flattened arrays stay aligned: for every  *)
(* profile p and depth sample d (counted from 0) position p*ndepth + d of  *)
(* cube_flat holds the value [p, d], its i_depth index is that of          *)
(* depth[p, d] and its i_lat and i_lon indices are those of the latitude   *)
(* and longitude of profile p; the four arrays have the same length.       *)
(***************************************************************************)
C26_FlattenedArraysAligned ==
    Regridding =>
        /\ Len(Flat(potm)) = NProfiles * NSamples
        /\ Len(i_depth_coord) = NProfiles * NSamples
        /\ Len(i_lat_coord(potm)) = NProfiles * NSamples
        /\ Len(i_lon_coord(potm)) = NProfiles * NSamples
        /\ \A p \in 0..(NProfiles - 1) : \A d \in 0..(NSamples - 1) :
               LET k == p * NSamples + d + 1
               IN  /\ Flat(potm)[k].data = potm.data[p + 1][d + 1]
                   /\ Flat(potm)[k].mask = potm.mask[p + 1][d + 1]
                   /\ i_depth_coord[k] =
                          CellIndex([data |-> depth.data[p + 1][d + 1],
                                     mask |-> depth.mask[p + 1][d + 1]],
                                    z_min, dz)
                   /\ i_lat_coord(potm)[k] =
                          CellIndex([data |-> latitude.data[p + 1],
                                     mask |-> FALSE], y_min, dy)
                   /\ i_lon_coord(potm)[k] =
                          CellIndex([data |-> longitude.data[p + 1],
                                     mask |-> FALSE], x_min, dx)

\* Two profiles of two samples at different latitudes: positions 2 and 3
\* (the second sample of the first profile, the first of the second) have
\* different values and different latitude indices.
C26_Witness ==
    /\ Regridded
    /\ shape = <<2, 2>>
    /\ latitude.data[1] # latitude.data[2]
    /\ potm.data[1][2] # potm.data[2][1]
    /\ i_lat_coord(potm)[2] # i_lat_coord(potm)[3]

(***************************************************************************)
(* C27. Discarding the out-of-grid groups after aggregation gives the grid *)
(* of the specified order: the observations outside the grid are dropped   *)
(* first, the survivors are grouped by index triple, and every cell of the *)
(* grid holds the statistic of its group (missing without one).  For every *)
(* input and each of MEAN, STD_DEV, COUNT, MIN and MAX aggregate_to_grid   *)
(* returns that grid.                                                      *)
(***************************************************************************)
\* The index triples of the flattened observations.
KeysOf(phenom) ==
    [k \in 1..Len(Flat(phenom)) |->
        <<i_depth_coord[k], i_lat_coord(phenom)[k], i_lon_coord(phenom)[k]>>]

\* The observations whose index triple is inside the grid.
Surviving(phenom) ==
    [k \in 1..Len(Flat(phenom)) |-> InGrid(KeysOf(phenom)[k], nz, ny, nx)]

\* The grid of the specified order.
SurvivorsGrid(phenom, aggregator) ==
    LET sflat == SelectIdx(Flat(phenom), Surviving(phenom))
        skeys == SelectIdx(KeysOf(phenom), Surviving(phenom))
    IN  [c \in Cells(nz, ny, nx) |->
            IF \E k \in 1..Len(skeys) : skeys[k] = c
            THEN Aggregate(aggregator, GroupMembers(sflat, skeys, c))
            ELSE MaskedCell]

C27_DiscardAfterEqualsDropFirst ==
    Regridding =>
        \A aggregator \in {"MEAN", "STD_DEV", "COUNT", "MIN", "MAX"} :
            aggregate_to_grid(potm, aggregator) =
                [err |-> "none", data |-> SurvivorsGrid(potm, aggregator)]

====
